---- MODULE Spec2Model ----
(***************************************************************************)
(* The document-formatting pipeline of AKN-Distill (myapp/processor):      *)
(* pipeline.run and run_batch, ops.apply_steps / _apply_single_step /      *)
(* _resolve_selector / _apply_action, rules.Rules.from_dict,               *)
(* audit_export.compare and engines.pick_engine, with the engine           *)
(* primitives of engines.py as the environment.                            *)
(*                                                                         *)
(* One run of pipeline.run is a sequential process; pc is its position.    *)
(* The Rules value is read where the code reads it: rules.engine when the  *)
(* engine is picked, the selector and each action of a step when the loops *)
(* of apply_steps and _apply_single_step reach them, and the three         *)
(* require_same_* flags when compare is called; whether rules.steps and    *)
(* step.actions have a further element is decided when the loop asks.      *)
(* What the process carries along of the rules is what it reads more than  *)
(* once, safety.allow_text_changes.  A Range list is represented by its    *)
(* length, an exception by its kind together with the step and action      *)
(* names the wrappers of ops.py put in front of it.                        *)
(***************************************************************************)
EXTENDS Integers, Sequences, FiniteSets, TLC

\* ---- bounds -------------------------------------------------------------
MaxSteps == 2      \* longest rules.steps list explored
MaxActions == 2    \* longest step.actions list explored
MaxRanges == 2     \* most ranges a selector primitive returns
MaxCommands == 1   \* longest raw_word_com command list explored
MaxCount == 1      \* largest count of a snapshot handed to compare directly
MaxInputs == 2     \* longest inputs list handed to run_batch
MaxMatches == 2    \* most paths a glob pattern expands to

\* ---- the names the code dispatches on -----------------------------------
\* ops._resolve_selector: the keys it tests, in its order
SelectorTags ==
    {"document", "by_style", "by_regex", "by_bookmark",
     "by_content_control", "by_table", "by_range"}

\* ops._apply_action: the action types of the "Standard Actions" chain
StandardActions ==
    {"paragraph_format", "style_apply", "numbering", "headers_footers",
     "field_update", "find_replace", "page_setup", "section_breaks",
     "bookmark_text", "content_control_text", "table_format",
     "insert_image", "raw_word_com"}

\* ops._apply_action: text_changing_actions
text_changing_actions == {"find_replace", "bookmark_text", "content_control_text"}

\* every key the dispatcher recognizes
ActionTypes == StandardActions \cup {"word_recipe"}

\* ops.RECIPE_REGISTRY: the modules of recipes_word/ that export a callable
\* whose name ends in _py
RECIPE_REGISTRY ==
    {"add_space_before_emdash_paragraphs", "enforce_list_left_indents_level1to3",
     "enforce_numeric_alignment_all_lists",
     "enforce_structured_list_indents_with_styles", "fix_aos_all_parts",
     "follow_number_with_none_level3", "lists_dot_to_emdash",
     "no_space_after_number_all_lists_fix", "remove_all_tabs",
     "remove_spaces_around_em_dash"}

EngineKinds == {"WordComEngine", "DocxEngine"}

\* ---- inputs -------------------------------------------------------------
\* a selector dict: its key; "document" carries the value it is tested against
Selectors ==
    [tag : SelectorTags \cup {"by_paragraph"}, document : {TRUE}]
      \cup {[tag |-> "document", document |-> FALSE]}

\* allow_text_change of an action's own config: absent, True or False
Overrides == {"absent", "true", "false"}

\* an action dict {type: config}
Actions ==
    [type : (StandardActions \ (text_changing_actions \cup {"raw_word_com"}))
               \cup {"format_text"},
     allow_text_change : {"absent"}, name : {""}, enabled : {TRUE}, commands : {0}]
      \cup
    [type : {"raw_word_com"},
     allow_text_change : {"absent"}, name : {""}, enabled : {TRUE},
     commands : 0..MaxCommands]
      \cup
    [type : text_changing_actions,
     allow_text_change : Overrides, name : {""}, enabled : {TRUE}, commands : {0}]
      \cup
    [type : {"word_recipe"}, allow_text_change : {"absent"},
     name : {"lists_dot_to_emdash", "does_not_exist"}, enabled : BOOLEAN,
     commands : {0}]

\* rules.Safety
SafetyValues ==
    [require_same_paragraph_count : BOOLEAN,
     require_same_bookmark_count : BOOLEAN,
     require_same_inline_shape_count : BOOLEAN,
     allow_text_changes : BOOLEAN]

\* the engine names Rules.from_dict accepts
RuleEngines == {"auto", "word", "libre"}

\* the parsed rules file handed to Rules.from_dict
RawRules ==
    [engine : RuleEngines \cup {"docx"},
     allow_text_changes : BOOLEAN,
     nsteps : 0..MaxSteps]

\* what the process keeps of a loaded Rules value
NoRules == [safety |-> [allow_text_changes |-> FALSE]]

\* ---- exceptions ---------------------------------------------------------
NoExc == [kind |-> "none", action |-> "", step |-> 0]

Exc(kind) == [kind |-> kind, action |-> "", step |-> 0]

\* _apply_single_step: raise ValueError(f"Action '{action_type}' failed: {e}")
WrapAction(e, action_type) == [e EXCEPT !.action = action_type]

\* apply_steps: raise RuntimeError(f"Step '{step.name}' failed: {e}")
WrapStep(e, step_name) == [e EXCEPT !.step = step_name]

\* ---- state --------------------------------------------------------------
VARIABLES
    pc,            \* position of the process
    entry,         \* "run": pipeline.run; "apply_steps": ops.apply_steps called directly
    rules,         \* the Rules value of load_rules
    dry_run,       \* argument of run
    engine,        \* "none" or the class of the constructed engine
    doc,           \* "None" or "doc", the handle open_document returned
    docstate,      \* the open document: the counts a snapshot reads
    pre, post,     \* the Snapshot values
    warnings,      \* what compare returned
    step_idx,      \* position in rules.steps (1-based; 0 before the loop)
    action_idx,    \* position in step.actions
    step,          \* the step being applied
    ranges,        \* len of the list _resolve_selector returned
    modifications, \* _apply_single_step's counter
    summary,       \* run's step_summary: the number of entries of summary["steps"]
    last,          \* the _resolve_selector / _apply_action call apply_steps made last
    calls,         \* how often each engine primitive and artifact writer was called
    exc,           \* the exception raised last
    result,        \* the exit code run returned; -1 while it has returned none
    batch,         \* the locals of run_batch
    frame,         \* the arguments and locals of a function called on its own
    db             \* the Document row, its RuleTaskState rows, the scheduled tasks

vars == <<pc, entry, rules, dry_run, engine, doc, docstate, pre, post, warnings,
          step_idx, action_idx, step, ranges, modifications, summary, last,
          calls, exc, result, batch, frame, db>>

\* no function is called on its own, and no row is stored
NoFrame == [fn |-> "none"]
NoDb ==
    [document |-> [status |-> "UPLOADED", error_message |-> "None"],
     tasks |-> <<>>, queue |-> <<>>]

\* run_batch before it has read its arguments
NoBatch == [inputs |-> <<>>, paths |-> <<>>, runs |-> <<>>, overall |-> 0]

CallKinds ==
    {"open_document", "close_document", "shutdown", "snapshot",
     "export_pdf", "save_as_new_docx", "write_audit"}

Called(k) == [calls EXCEPT ![k] = @ + 1]

NoStep == [name |-> 0]

\* audit_export.Snapshot: its six fields (headings_by_level by its total)
SnapshotFields ==
    {"paragraph_count", "bookmark_count", "inline_shape_count",
     "content_control_count", "tables_count", "headings_by_level"}

NoSnapshot == [f \in SnapshotFields |-> -1]

\* what an error message names: a recipe, selector or action type, and the
\* names it lists as available
NoDetail == [names |-> "", available |-> {}]

\* a call of _resolve_selector or _apply_action: its arguments and what it did
NoLast ==
    [op |-> "none", step |-> 0, tag |-> "", type |-> "",
     allow_text_change |-> "absent", name |-> "", enabled |-> TRUE,
     outcome |-> "none", error |-> "", detail |-> NoDetail, count |-> 0,
     primitives |-> 0, lookups |-> 0, recipes |-> 0, effect |-> "none"]

\* ---- rules.py -----------------------------------------------------------
\* Rules.from_dict with _validate_step: the ValueError it raises, "" when
\* the raw rules are accepted.  shape_ok: every step is an object with a
\* name, a non-empty select object and a non-empty actions array of one-key
\* objects; neither the keys of select nor those of the actions are looked at.
from_dict(raw, shape_ok) ==
    IF raw.engine \notin RuleEngines
    THEN "rules.engine must be one of: auto, word, libre"
    ELSE IF raw.nsteps = 0 THEN "rules.steps must be a non-empty array."
    ELSE IF ~shape_ok THEN "step is malformed"
    ELSE ""

\* load_rules: the file exists and parses (readable), then from_dict
load_rules(readable, raw, shape_ok) ==
    IF ~readable
    THEN [ok |-> FALSE, rules |-> NoRules, error |-> "Failed to read rules file"]
    ELSE IF from_dict(raw, shape_ok) # ""
    THEN [ok |-> FALSE, rules |-> NoRules, error |-> from_dict(raw, shape_ok)]
    ELSE [ok |-> TRUE,
          rules |-> [safety |-> [allow_text_changes |-> raw.allow_text_changes]],
          error |-> ""]

\* ---- engines.py ---------------------------------------------------------
\* pick_engine: the class constructed for a hint, or the error raised.
\* word_ok / docx_ok: whether WordComEngine() / DocxEngine() construct;
\* LibreUnoEngine defines none of Engine's abstract methods, so
\* LibreUnoEngine() raises TypeError (abstract class) before __init__ runs,
\* and the except NotImplementedError of the auto branch does not catch it.
pick_engine(engine_hint, platform, word_ok, docx_ok) ==
    IF engine_hint = "word" THEN
        IF platform # "Windows" THEN [engine |-> "none", error |-> "Word COM engine requires Windows"]
        ELSE IF word_ok THEN [engine |-> "WordComEngine", error |-> ""]
        ELSE [engine |-> "none", error |-> "Failed to initialize Word COM"]
    ELSE IF engine_hint = "libre" THEN
        [engine |-> "none", error |-> "TypeError"]
    ELSE IF engine_hint = "docx" THEN
        IF docx_ok THEN [engine |-> "DocxEngine", error |-> ""]
        ELSE [engine |-> "none", error |-> "python-docx is required"]
    ELSE
        IF platform = "Windows" /\ word_ok THEN [engine |-> "WordComEngine", error |-> ""]
        ELSE IF docx_ok THEN [engine |-> "DocxEngine", error |-> ""]
        ELSE [engine |-> "none", error |-> "TypeError"]

\* What a primitive of the engine's class can do when called: "ok", "raise".
\* WordComEngine: the COM call succeeds or fails; close_document and shutdown
\* catch Exception themselves, and what close_document does not catch
\* propagates.  DocxEngine: the definitions at the end of the class body
\* replace the earlier ones, so most primitives raise NotImplementedError.
PrimitiveOutcomes(eng, primitive) ==
    IF eng = "WordComEngine" THEN
        IF primitive \in {"shutdown"} THEN {"ok"} ELSE {"ok", "raise"}
    ELSE
        IF primitive \in {"select_by_content_control", "apply_numbering",
                          "replace_content_control_text", "raw_word_com",
                          "shutdown"}
        THEN {"ok"} ELSE {"raise"}

\* the documents open_document can return a handle to
Documents ==
    {[f \in SnapshotFields |-> IF f = "paragraph_count" THEN MaxRanges + 1 ELSE 0]}

NoDocument == [f \in SnapshotFields |-> 0]

\* audit_export.Snapshot.take over engine.snapshot(doc)
Snapshot(d) == [f \in SnapshotFields |-> d[f]]

\* ---- pipeline.run -------------------------------------------------------
Init ==
    /\ pc = "load_rules"
    /\ entry = "run"
    /\ rules = NoRules
    /\ dry_run \in BOOLEAN
    /\ engine = "none"
    /\ doc = "None"
    /\ docstate = NoDocument
    /\ pre = NoSnapshot
    /\ post = NoSnapshot
    /\ warnings = <<>>
    /\ step_idx = 0
    /\ action_idx = 0
    /\ step = NoStep
    /\ ranges = 0
    /\ modifications = 0
    /\ summary = [steps |-> 0]
    /\ last = NoLast
    /\ calls = [k \in CallKinds |-> 0]
    /\ exc = NoExc
    /\ result = -1
    /\ batch = NoBatch
    /\ frame = NoFrame
    /\ db = NoDb

\* LoadRules without the return of line 39: the failure is logged and run
\* goes on to pick an engine
LoadRules_falls_through ==
    /\ pc = "load_rules"
    /\ \E readable \in BOOLEAN, raw \in RawRules, shape_ok \in BOOLEAN :
         LET r == load_rules(readable, raw, shape_ok) IN
         /\ rules' = r.rules
         /\ pc' = "pick_engine"
         /\ exc' = IF r.ok THEN exc ELSE Exc(r.error)
    /\ UNCHANGED <<batch, frame, db, entry, dry_run, engine, doc, docstate, pre, post, warnings,
                   step_idx, action_idx, step, ranges, modifications, summary,
                   last, calls, result>>

\* run, lines 35-39: load the rules or return 1
LoadRules ==
    /\ pc = "load_rules"
    /\ \E readable \in BOOLEAN, raw \in RawRules, shape_ok \in BOOLEAN :
         LET r == load_rules(readable, raw, shape_ok) IN
         IF r.ok
         THEN /\ rules' = r.rules
              /\ pc' = "pick_engine"
              /\ UNCHANGED <<result, exc>>
         ELSE /\ rules' = NoRules
              /\ pc' = "done"
              /\ result' = 1
              /\ exc' = Exc(r.error)
    /\ UNCHANGED <<batch, frame, db, entry, dry_run, engine, doc, docstate, pre, post, warnings,
                   step_idx, action_idx, step, ranges, modifications, summary,
                   last, calls>>

\* run, lines 42-47: construct the engine or return 1
PickEngine ==
    /\ pc = "pick_engine"
    /\ \E engine_hint \in {"auto", "word", "libre", "docx"},
          rules_engine \in RuleEngines,
          platform \in {"Windows", "Linux"}, word_ok \in BOOLEAN, docx_ok \in BOOLEAN :
         LET chosen == IF engine_hint = "auto" THEN rules_engine ELSE engine_hint
             r == pick_engine(chosen, platform, word_ok, docx_ok) IN
         IF r.engine # "none"
         THEN /\ engine' = r.engine
              /\ pc' = "open_document"
              /\ UNCHANGED <<result, exc>>
         ELSE /\ engine' = "none"
              /\ pc' = "done"
              /\ result' = 1
              /\ exc' = Exc(r.error)
    /\ UNCHANGED <<batch, frame, db, entry, rules, dry_run, doc, docstate, pre, post, warnings,
                   step_idx, action_idx, step, ranges, modifications, summary,
                   last, calls>>

\* an exception leaves the try block of run for its except clause
Raise(e) ==
    /\ exc' = e
    /\ pc' = "except"

\* run, line 53: doc = engine.open_document(input_path)
OpenDocument ==
    /\ pc = "open_document"
    /\ calls' = Called("open_document")
    /\ \E o \in PrimitiveOutcomes(engine, "open_document") :
         IF o = "ok"
         THEN /\ doc' = "doc"
              /\ docstate' \in Documents
              /\ pc' = "pre_snapshot"
              /\ UNCHANGED exc
         ELSE /\ Raise(Exc("open_document"))
              /\ UNCHANGED <<doc, docstate>>
    /\ UNCHANGED <<batch, frame, db, entry, rules, dry_run, engine, pre, post, warnings,
                   step_idx, action_idx, step, ranges, modifications, summary,
                   last, result>>

\* run, line 54: pre = Snapshot.take(engine, doc)
TakePre ==
    /\ pc = "pre_snapshot"
    /\ calls' = Called("snapshot")
    /\ \E o \in PrimitiveOutcomes(engine, "snapshot") :
         IF o = "ok"
         THEN /\ pre' = Snapshot(docstate)
              /\ pc' = "apply_steps"
              /\ UNCHANGED exc
         ELSE /\ Raise(Exc("snapshot"))
              /\ UNCHANGED pre
    /\ UNCHANGED <<batch, frame, db, entry, rules, dry_run, engine, doc, docstate, post, warnings,
                   step_idx, action_idx, step, ranges, modifications, summary,
                   last, result>>

\* ---- ops.py -------------------------------------------------------------
\* a call returned count, after so many engine primitives, registry lookups
\* and recipe invocations, with this effect on the document
Returned(count, primitives, lookups, recipes, effect) ==
    [outcome |-> "returned", error |-> "", detail |-> NoDetail, count |-> count,
     primitives |-> primitives, lookups |-> lookups, recipes |-> recipes,
     effect |-> effect]

\* a call raised error
Raised(error, detail, primitives, lookups, recipes, effect) ==
    [outcome |-> "raised", error |-> error, detail |-> detail, count |-> 0,
     primitives |-> primitives, lookups |-> lookups, recipes |-> recipes,
     effect |-> effect]

\* the engine method _resolve_selector calls for a key
SelectorPrimitive ==
    [by_style |-> "select_by_style", by_regex |-> "select_by_regex",
     by_bookmark |-> "select_by_bookmark",
     by_content_control |-> "select_by_content_control",
     by_table |-> "select_by_table", by_range |-> "select_by_range"]

\* how many ranges a selector primitive can return
SelectorCounts(eng) == IF eng = "WordComEngine" THEN 0..MaxRanges ELSE {0}

\* _resolve_selector with an unrecognized key treated as matching nothing
_resolve_selector_lenient(eng, selector) ==
    IF selector.tag = "document" /\ selector.document THEN
        {Returned(1, 0, 0, 0, "none")}
    ELSE IF selector.tag \in DOMAIN SelectorPrimitive THEN
        {Returned(n, 1, 0, 0, "none") :
            n \in IF "ok" \in PrimitiveOutcomes(eng, SelectorPrimitive[selector.tag])
                  THEN SelectorCounts(eng) ELSE {}}
          \cup
        {Raised("primitive", NoDetail, 1, 0, 0, "none") :
            o \in PrimitiveOutcomes(eng, SelectorPrimitive[selector.tag]) \ {"ok"}}
    ELSE
        {Returned(0, 0, 0, 0, "none")}

\* _resolve_selector: everything a call can do
_resolve_selector(eng, selector) ==
    IF selector.tag = "document" /\ selector.document THEN
        {Returned(1, 0, 0, 0, "none")}
    ELSE IF selector.tag \in DOMAIN SelectorPrimitive THEN
        {Returned(n, 1, 0, 0, "none") :
            n \in IF "ok" \in PrimitiveOutcomes(eng, SelectorPrimitive[selector.tag])
                  THEN SelectorCounts(eng) ELSE {}}
          \cup
        {Raised("primitive", NoDetail, 1, 0, 0, "none") :
            o \in PrimitiveOutcomes(eng, SelectorPrimitive[selector.tag]) \ {"ok"}}
    ELSE
        {Raised("Unknown selector type",
                [names |-> selector.tag, available |-> {}], 0, 0, 0, "none")}

\* the engine method _apply_action calls for a standard action type
ActionPrimitive ==
    [paragraph_format |-> "apply_paragraph_format", style_apply |-> "apply_style",
     numbering |-> "apply_numbering", headers_footers |-> "set_headers_footers",
     field_update |-> "update_fields_and_toc", find_replace |-> "find_replace",
     page_setup |-> "apply_page_setup", section_breaks |-> "insert_section_break",
     bookmark_text |-> "replace_bookmark_text",
     content_control_text |-> "replace_content_control_text",
     table_format |-> "format_table", insert_image |-> "insert_image",
     raw_word_com |-> "raw_word_com"]

\* the actions applied range by range: the primitive loops over ranges
RangeActions == {"paragraph_format", "style_apply", "numbering"}

\* what a primitive that returns normally can have done to the document
Effects(eng, type, nranges, count) ==
    IF eng # "WordComEngine" THEN {"none"}
    ELSE IF type \in RangeActions THEN (IF nranges = 0 THEN {"none"} ELSE {"edit"})
    ELSE IF type \in {"find_replace", "raw_word_com"} THEN
        (IF count = 0 THEN {"none"} ELSE {"edit"})
    ELSE IF type = "section_breaks" THEN {"paragraph"}
    ELSE IF type = "insert_image" THEN {"inline_shape"}
    ELSE {"edit"}

\* the counts _apply_action returns for an action whose primitive returned
Counts(eng, a, nranges) ==
    IF a.type \in RangeActions THEN
        (IF eng = "WordComEngine" THEN {nranges} ELSE {0})
    ELSE IF a.type = "find_replace" THEN {0, 1}
    ELSE IF a.type = "raw_word_com" THEN {a.commands}
    ELSE {1}

\* WordComEngine: a primitive that loops over the ranges it is given cannot
\* fail on none, and raw_word_com catches what its commands raise
CanRaise(eng, type, nranges) ==
    /\ "raise" \in PrimitiveOutcomes(eng, ActionPrimitive[type])
    /\ ~(eng = "WordComEngine" /\ type \in RangeActions /\ nranges = 0)
    /\ ~(eng = "WordComEngine" /\ type = "raw_word_com")

\* the standard-action chain of _apply_action, lines 149-199
StandardAction(eng, nranges, a) ==
    {Returned(c, 1, 0, 0, e) :
        <<c, e>> \in {ce \in Counts(eng, a, nranges) \X
                                {"none", "edit", "paragraph", "inline_shape"} :
                        /\ "ok" \in PrimitiveOutcomes(eng, ActionPrimitive[a.type])
                        /\ ce[2] \in Effects(eng, a.type, nranges, ce[1])}}
      \cup
    {Raised("primitive", NoDetail, 1, 0, 0, "none") :
        o \in IF CanRaise(eng, a.type, nranges) THEN {"raise"} ELSE {}}

\* what a recipe callable returns: ok, and items_touched and count_updated
\* (-1: the key is absent)
RecipeResults ==
    [ok : BOOLEAN, items_touched : -1..MaxRanges, count_updated : -1..MaxRanges]

\* the results the callable of this run can return: any, or the one the
\* caller of _apply_action has fixed
RecipeReturns == IF frame.fn = "recipe" THEN {frame.result} ELSE RecipeResults

\* the modification count taken from count_updated when the result has it
RecipeMods_count_updated(r) ==
    IF r.items_touched # -1 THEN r.items_touched
    ELSE IF r.count_updated # -1 THEN r.count_updated
    ELSE IF r.ok THEN 1 ELSE 0

\* lines 221-227: the modification count of a recipe result
RecipeMods(r) ==
    IF r.items_touched # -1 THEN r.items_touched
    ELSE IF r.ok THEN 1 ELSE 0

\* WordRecipe with the engine test in front of the enabled test
WordRecipe_engine_first(eng, a) ==
    IF eng # "WordComEngine" THEN
        {Raised("requires the WordComEngine",
                [names |-> a.name, available |-> {}], 0, 0, 0, "none")}
    ELSE IF ~a.enabled THEN {Returned(0, 0, 0, 0, "none")}
    ELSE IF a.name \notin RECIPE_REGISTRY THEN
        {Raised("Unknown word_recipe",
                [names |-> a.name, available |-> RECIPE_REGISTRY], 0, 1, 0, "none")}
    ELSE
        {Returned(RecipeMods(r), 0, 1, 1, e) :
            r \in RecipeResults, e \in {"edit", "bookmark"}}
          \cup {Raised("recipe", NoDetail, 0, 1, 1, "none")}

\* WordRecipe with a name the registry lacks skipped like a disabled recipe
WordRecipe_unknown_skipped(eng, a) ==
    IF ~a.enabled THEN {Returned(0, 0, 0, 0, "none")}
    ELSE IF eng # "WordComEngine" THEN
        {Raised("requires the WordComEngine",
                [names |-> a.name, available |-> {}], 0, 0, 0, "none")}
    ELSE IF a.name \notin RECIPE_REGISTRY THEN
        {Returned(0, 0, 1, 0, "none")}
    ELSE
        {Returned(RecipeMods(r), 0, 1, 1, e) :
            r \in RecipeResults, e \in {"edit", "bookmark"}}
          \cup {Raised("recipe", NoDetail, 0, 1, 1, "none")}

\* WordRecipe without the isinstance test of lines 210-211
WordRecipe_any_engine(eng, a) ==
    IF ~a.enabled THEN {Returned(0, 0, 0, 0, "none")}
    ELSE IF a.name \notin RECIPE_REGISTRY THEN
        {Raised("Unknown word_recipe",
                [names |-> a.name, available |-> RECIPE_REGISTRY], 0, 1, 0, "none")}
    ELSE
        {Returned(RecipeMods(r), 0, 1, 1, e) :
            r \in RecipeResults, e \in {"edit", "bookmark"}}
          \cup {Raised("recipe", NoDetail, 0, 1, 1, "none")}

\* the word_recipe branch of _apply_action, lines 202-227; the callable
\* returns a result record or raises
WordRecipe(eng, a) ==
    IF ~a.enabled THEN {Returned(0, 0, 0, 0, "none")}
    ELSE IF eng # "WordComEngine" THEN
        {Raised("requires the WordComEngine",
                [names |-> a.name, available |-> {}], 0, 0, 0, "none")}
    ELSE IF a.name \notin RECIPE_REGISTRY THEN
        {Raised("Unknown word_recipe",
                [names |-> a.name, available |-> RECIPE_REGISTRY], 0, 1, 0, "none")}
    ELSE
        {Returned(RecipeMods(r), 0, 1, 1, e) :
            r \in RecipeReturns, e \in {"edit", "bookmark"}}
          \cup (IF frame.fn = "recipe" THEN {}
                ELSE {Raised("recipe", NoDetail, 0, 1, 1, "none")})

\* AllowChange with the default True in place of safety.allow_text_changes
AllowChange_default_true(a, safety) ==
    IF a.allow_text_change = "absent" THEN TRUE
    ELSE a.allow_text_change = "true"

\* lines 140-146: config.get("allow_text_change", safety.allow_text_changes)
AllowChange(a, safety) ==
    IF a.allow_text_change = "absent" THEN safety.allow_text_changes
    ELSE a.allow_text_change = "true"

\* _apply_action without its last line: an unrecognized type does nothing
_apply_action_lenient(eng, nranges, a, safety) ==
    IF a.type \in text_changing_actions /\ ~AllowChange(a, safety) THEN
        {Raised("requires text changes but allow_text_changes=False",
                [names |-> a.type, available |-> {}], 0, 0, 0, "none")}
    ELSE IF a.type \in StandardActions THEN StandardAction(eng, nranges, a)
    ELSE IF a.type = "word_recipe" THEN WordRecipe(eng, a)
    ELSE {Returned(0, 0, 0, 0, "none")}

\* _apply_action: everything a call can do
_apply_action(eng, nranges, a, safety) ==
    IF a.type \in text_changing_actions /\ ~AllowChange(a, safety) THEN
        {Raised("requires text changes but allow_text_changes=False",
                [names |-> a.type, available |-> {}], 0, 0, 0, "none")}
    ELSE IF a.type \in StandardActions THEN StandardAction(eng, nranges, a)
    ELSE IF a.type = "word_recipe" THEN WordRecipe(eng, a)
    ELSE {Raised("Unknown action type",
                 [names |-> a.type, available |-> {}], 0, 0, 0, "none")}

\* the counts of the document after a primitive or recipe had its effect
\* ("edit": formatting or text changed, no count did)
Apply(d, effect) ==
    IF effect = "none" THEN d
    ELSE IF effect = "paragraph" THEN [d EXCEPT !.paragraph_count = @ + 1]
    ELSE IF effect = "bookmark" THEN [d EXCEPT !.bookmark_count = @ + 1]
    ELSE IF effect = "inline_shape" THEN [d EXCEPT !.inline_shape_count = @ + 1]
    ELSE d

\* the record of one _resolve_selector / _apply_action call
Call(op, k, selector, a, o) ==
    [op |-> op, step |-> k, tag |-> selector.tag, type |-> a.type,
     allow_text_change |-> a.allow_text_change, name |-> a.name,
     enabled |-> a.enabled,
     outcome |-> o.outcome, error |-> o.error, detail |-> o.detail,
     count |-> o.count,
     primitives |-> o.primitives, lookups |-> o.lookups, recipes |-> o.recipes,
     effect |-> o.effect]

NoSelector == [tag |-> "", document |-> TRUE]

NoAction ==
    [type |-> "", allow_text_change |-> "absent", name |-> "", enabled |-> TRUE,
     commands |-> 0]

\* run, lines 56-61: skip the steps in dry-run mode, else enter apply_steps
ApplySteps ==
    /\ pc = "apply_steps"
    /\ IF dry_run
       THEN /\ pc' = "post_snapshot"
            /\ UNCHANGED <<step_idx, summary>>
       ELSE /\ pc' = "step_loop"
            /\ step_idx' = 0
            /\ summary' = [steps |-> 0]
    /\ UNCHANGED <<batch, frame, db, entry, rules, dry_run, engine, doc, docstate, pre, post, warnings,
                   action_idx, step, ranges, modifications, last, calls, exc, result>>

\* apply_steps, lines 61-65: the next step of rules.steps enters
\* _apply_single_step (a validated list has one step at least, an explored
\* one MaxSteps at most)
NextStep ==
    /\ pc = "step_loop"
    /\ step_idx < MaxSteps
    /\ step_idx' = step_idx + 1
    /\ step' = [name |-> step_idx + 1]
    /\ modifications' = 0
    /\ pc' = "resolve_selector"
    /\ UNCHANGED <<batch, frame, db, entry, rules, dry_run, engine, doc, docstate, pre, post, warnings,
                   action_idx, ranges, summary, last, calls, exc, result>>

\* _apply_single_step, line 82: ranges = _resolve_selector(...)
ResolveSelector ==
    /\ pc = "resolve_selector"
    /\ \E selector \in Selectors :
       \E o \in _resolve_selector(engine, selector) :
         /\ last' = Call("selector", step.name, selector, NoAction, o)
         /\ IF o.outcome = "returned"
            THEN /\ ranges' = o.count
                 /\ action_idx' = 0
                 /\ pc' = "action_loop"
                 /\ UNCHANGED exc
            ELSE /\ exc' = Exc(o.error)
                 /\ pc' = "step_except"
                 /\ UNCHANGED <<ranges, action_idx>>
    /\ UNCHANGED <<batch, frame, db, entry, rules, dry_run, engine, doc, docstate, pre, post, warnings,
                   step_idx, step, modifications, summary, calls, result>>

\* _apply_single_step, lines 85-95: one action of step.actions is dispatched;
\* its count is added, or its exception is wrapped with the action type
ApplyAction ==
    /\ pc = "action_loop"
    /\ action_idx < MaxActions
    /\ \E a \in Actions :
       \E o \in _apply_action(engine, ranges, a, rules.safety) :
         /\ last' = Call("action", step.name, NoSelector, a, o)
         /\ docstate' = Apply(docstate, o.effect)
         /\ IF o.outcome = "returned"
            THEN /\ modifications' = modifications + o.count
                 /\ action_idx' = action_idx + 1
                 /\ pc' = "action_loop"
                 /\ UNCHANGED exc
            ELSE /\ exc' = WrapAction(Exc(o.error), a.type)
                 /\ pc' = "step_except"
                 /\ UNCHANGED <<modifications, action_idx>>
    /\ UNCHANGED <<batch, frame, db, entry, rules, dry_run, engine, doc, pre, post, warnings,
                   step_idx, step, ranges, summary, calls, result>>

\* _apply_single_step, line 97, and apply_steps, lines 66-69: step.actions
\* (one action at least) is exhausted, the step's count goes into the summary
StepReturn ==
    /\ pc = "action_loop"
    /\ action_idx >= 1
    /\ summary' = [steps |-> summary.steps + 1]
    /\ pc' = "step_loop"
    /\ UNCHANGED <<batch, frame, db, entry, rules, dry_run, engine, doc, docstate, pre, post, warnings,
                   step_idx, action_idx, step, ranges, modifications, last, calls,
                   exc, result>>

\* the locals of apply_steps and _apply_single_step are gone when
\* apply_steps is left (the record of its last call goes with them once the
\* caller has seen how it ended)
Leave ==
    /\ step_idx' = 0
    /\ action_idx' = 0
    /\ step' = NoStep
    /\ ranges' = 0
    /\ modifications' = 0

\* StepExcept with the failure logged and the loop continued
StepExcept_continue ==
    /\ pc = "step_except"
    /\ exc' = WrapStep(exc, step.name)
    /\ pc' = "step_loop"
    /\ UNCHANGED <<batch, frame, db, entry, rules, dry_run, engine, doc, docstate, pre, post, warnings,
                   step_idx, action_idx, step, ranges, modifications, summary,
                   last, calls, result>>

\* apply_steps, lines 70-72: the failure of a step is wrapped with its name
\* and leaves apply_steps
StepExcept ==
    /\ pc = "step_except"
    /\ exc' = WrapStep(exc, step.name)
    /\ pc' = IF entry = "run" THEN "except" ELSE "raised"
    /\ summary' = [steps |-> 0]
    /\ Leave
    /\ UNCHANGED <<batch, frame, db, entry, rules, dry_run, engine, doc, docstate, pre, post, warnings,
                   last, calls, result>>

\* apply_steps, lines 74-75: all steps done, the summary is returned
ApplyStepsReturn ==
    /\ pc = "step_loop"
    /\ step_idx >= 1
    /\ pc' = IF entry = "run" THEN "post_snapshot" ELSE "returned"
    /\ Leave
    /\ last' = NoLast
    /\ UNCHANGED <<batch, frame, db, entry, rules, dry_run, engine, doc, docstate, pre, post, warnings,
                   summary, calls, exc, result>>

\* ---- audit_export.py ----------------------------------------------------
\* f"{text}: {from} -> {to}"
Warning(text, from, to) == [text |-> text, from |-> from, to |-> to]

\* compare without the bookmark test of lines 41-44
compare_no_bookmark(p, q, safety) ==
    (IF safety.require_same_paragraph_count /\ p.paragraph_count # q.paragraph_count
     THEN <<Warning("Paragraph count changed", p.paragraph_count, q.paragraph_count)>>
     ELSE <<>>)
    \o
    (IF safety.require_same_inline_shape_count
          /\ p.inline_shape_count # q.inline_shape_count
     THEN <<Warning("Inline shape count changed",
                    p.inline_shape_count, q.inline_shape_count)>>
     ELSE <<>>)

\* compare: the warnings, in the order the code appends them
compare(p, q, safety) ==
    (IF safety.require_same_paragraph_count /\ p.paragraph_count # q.paragraph_count
     THEN <<Warning("Paragraph count changed", p.paragraph_count, q.paragraph_count)>>
     ELSE <<>>)
    \o
    (IF safety.require_same_bookmark_count /\ p.bookmark_count # q.bookmark_count
     THEN <<Warning("Bookmark count changed", p.bookmark_count, q.bookmark_count)>>
     ELSE <<>>)
    \o
    (IF safety.require_same_inline_shape_count
          /\ p.inline_shape_count # q.inline_shape_count
     THEN <<Warning("Inline shape count changed",
                    p.inline_shape_count, q.inline_shape_count)>>
     ELSE <<>>)

\* ---- pipeline.run, after the steps --------------------------------------
\* run, line 63: post = Snapshot.take(engine, doc)
TakePost ==
    /\ pc = "post_snapshot"
    /\ calls' = Called("snapshot")
    /\ \E o \in PrimitiveOutcomes(engine, "snapshot") :
         IF o = "ok"
         THEN /\ post' = Snapshot(docstate)
              /\ pc' = "compare"
              /\ UNCHANGED exc
         ELSE /\ Raise(Exc("snapshot"))
              /\ UNCHANGED post
    /\ UNCHANGED <<batch, frame, db, entry, rules, dry_run, engine, doc, docstate, pre, warnings,
                   step_idx, action_idx, step, ranges, modifications, summary,
                   last, result>>

\* Compare with a warning treated as a failure of the run
Compare_blocking ==
    /\ pc = "compare"
    /\ \E safety \in SafetyValues, made \in BOOLEAN :
         /\ safety.allow_text_changes = rules.safety.allow_text_changes
         /\ warnings' = compare(pre, post, safety)
         /\ IF Len(warnings') > 0 THEN Raise(Exc("safety"))
            ELSE IF made
            THEN pc' = "save_artifacts" /\ UNCHANGED exc
            ELSE Raise(Exc("mkdir"))
    /\ UNCHANGED <<batch, frame, db, entry, rules, dry_run, engine, doc, docstate, pre, post,
                   step_idx, action_idx, step, ranges, modifications, summary,
                   last, calls, result>>

\* run, lines 64-70: the warnings are logged, the output folder is made
Compare ==
    /\ pc = "compare"
    /\ \E safety \in SafetyValues, made \in BOOLEAN :
         /\ safety.allow_text_changes = rules.safety.allow_text_changes
         /\ warnings' = compare(pre, post, safety)
         /\ IF made
            THEN pc' = "save_artifacts" /\ UNCHANGED exc
            ELSE Raise(Exc("mkdir"))
    /\ UNCHANGED <<batch, frame, db, entry, rules, dry_run, engine, doc, docstate, pre, post,
                   step_idx, action_idx, step, ranges, modifications, summary,
                   last, calls, result>>

\* SaveArtifacts without the dry-run test of line 72
SaveArtifacts_always ==
    /\ pc = "save_artifacts"
    /\ calls' = Called("export_pdf")
    /\ \E o \in PrimitiveOutcomes(engine, "export_pdf") :
         IF o = "ok"
         THEN pc' = "write_audit" /\ UNCHANGED exc
         ELSE Raise(Exc("export_pdf"))
    /\ UNCHANGED <<batch, frame, db, entry, rules, dry_run, engine, doc, docstate, pre, post, warnings,
                   step_idx, action_idx, step, ranges, modifications, summary,
                   last, result>>

\* run, lines 72-74, and save_artifacts: unless dry-run, export the PDF
SaveArtifacts ==
    /\ pc = "save_artifacts"
    /\ IF dry_run
       THEN /\ pc' = "write_audit"
            /\ UNCHANGED <<calls, exc>>
       ELSE /\ calls' = Called("export_pdf")
            /\ \E o \in PrimitiveOutcomes(engine, "export_pdf") :
                 IF o = "ok"
                 THEN pc' = "write_audit" /\ UNCHANGED exc
                 ELSE Raise(Exc("export_pdf"))
    /\ UNCHANGED <<batch, frame, db, entry, rules, dry_run, engine, doc, docstate, pre, post, warnings,
                   step_idx, action_idx, step, ranges, modifications, summary,
                   last, result>>

\* run, lines 76-87: write the audit file when asked to, then return 0
WriteAudit ==
    /\ pc = "write_audit"
    /\ \E write_audit \in BOOLEAN, written \in BOOLEAN :
         IF ~write_audit
         THEN /\ result' = 0
              /\ pc' = "finally_close"
              /\ UNCHANGED <<calls, exc>>
         ELSE /\ calls' = Called("write_audit")
              /\ IF written
                 THEN /\ result' = 0
                      /\ pc' = "finally_close"
                      /\ UNCHANGED exc
                 ELSE /\ Raise(Exc("write_audit_file"))
                      /\ UNCHANGED result
    /\ UNCHANGED <<batch, frame, db, entry, rules, dry_run, engine, doc, docstate, pre, post, warnings,
                   step_idx, action_idx, step, ranges, modifications, summary, last>>

\* Except with the failure logged and 0 returned
Except_returns_0 ==
    /\ pc = "except"
    /\ result' = 0
    /\ last' = NoLast
    /\ pc' = "finally_close"
    /\ UNCHANGED <<batch, frame, db, entry, rules, dry_run, engine, doc, docstate, pre, post, warnings,
                   step_idx, action_idx, step, ranges, modifications, summary, exc,
                   calls>>

\* run, lines 89-91: the failure is logged and run returns 1
Except ==
    /\ pc = "except"
    /\ result' = 1
    /\ last' = NoLast
    /\ pc' = "finally_close"
    /\ UNCHANGED <<batch, frame, db, entry, rules, dry_run, engine, doc, docstate, pre, post, warnings,
                   step_idx, action_idx, step, ranges, modifications, summary, exc,
                   calls>>

\* FinallyClose with close_document and shutdown in one finally block, not
\* nested: an exception of close_document skips shutdown
FinallyClose_flat ==
    /\ pc = "finally_close"
    /\ IF doc # "None"
       THEN /\ calls' = Called("close_document")
            /\ \E o \in PrimitiveOutcomes(engine, "close_document") :
                 IF o = "ok"
                 THEN UNCHANGED <<exc, result>> /\ pc' = "finally_shutdown"
                 ELSE exc' = Exc("close_document") /\ result' = -1 /\ pc' = "done"
       ELSE UNCHANGED <<calls, exc, result>> /\ pc' = "finally_shutdown"
    /\ UNCHANGED <<batch, frame, db, entry, rules, dry_run, engine, doc, docstate, pre, post, warnings,
                   step_idx, action_idx, step, ranges, modifications, summary, last>>

\* FinallyClose with the close in the try block's success path only: a failed
\* run leaves the document open
FinallyClose_on_success ==
    /\ pc = "finally_close"
    /\ IF doc # "None" /\ result = 0
       THEN /\ calls' = Called("close_document")
            /\ \E o \in PrimitiveOutcomes(engine, "close_document") :
                 IF o = "ok"
                 THEN UNCHANGED <<exc, result>>
                 ELSE exc' = Exc("close_document") /\ result' = -1
       ELSE UNCHANGED <<calls, exc, result>>
    /\ pc' = "finally_shutdown"
    /\ UNCHANGED <<batch, frame, db, entry, rules, dry_run, engine, doc, docstate, pre, post, warnings,
                   step_idx, action_idx, step, ranges, modifications, summary, last>>

\* run, lines 93-95: close the document if one was opened; an exception of
\* close_document replaces the pending return value
FinallyClose ==
    /\ pc = "finally_close"
    /\ IF doc # "None"
       THEN /\ calls' = Called("close_document")
            /\ \E o \in PrimitiveOutcomes(engine, "close_document") :
                 IF o = "ok"
                 THEN UNCHANGED <<exc, result>>
                 ELSE exc' = Exc("close_document") /\ result' = -1
       ELSE UNCHANGED <<calls, exc, result>>
    /\ pc' = "finally_shutdown"
    /\ UNCHANGED <<batch, frame, db, entry, rules, dry_run, engine, doc, docstate, pre, post, warnings,
                   step_idx, action_idx, step, ranges, modifications, summary, last>>

\* run, lines 96-100: shut the engine down, ignoring what shutdown raises
FinallyShutdown ==
    /\ pc = "finally_shutdown"
    /\ calls' = Called("shutdown")
    /\ pc' = "done"
    /\ UNCHANGED <<batch, frame, db, entry, rules, dry_run, engine, doc, docstate, pre, post, warnings,
                   step_idx, action_idx, step, ranges, modifications, summary, last,
                   exc, result>>

Next ==
    \/ LoadRules
    \/ PickEngine
    \/ OpenDocument
    \/ TakePre
    \/ ApplySteps
    \/ NextStep
    \/ ResolveSelector
    \/ ApplyAction
    \/ StepReturn
    \/ StepExcept
    \/ ApplyStepsReturn
    \/ TakePost
    \/ Compare
    \/ SaveArtifacts
    \/ WriteAudit
    \/ Except
    \/ FinallyClose
    \/ FinallyShutdown

Spec == Init /\ [][Next]_vars

\* ---- ops.apply_steps called on its own ----------------------------------
\* apply_steps(engine, doc, steps, safety, log) with an engine of either
\* class, an open document and a validated step list
InitOps ==
    /\ pc = "step_loop"
    /\ entry = "apply_steps"
    /\ rules \in [safety : [allow_text_changes : BOOLEAN]]
    /\ dry_run = FALSE
    /\ engine \in EngineKinds
    /\ doc = "doc"
    /\ docstate \in Documents
    /\ pre = NoSnapshot
    /\ post = NoSnapshot
    /\ warnings = <<>>
    /\ step_idx = 0
    /\ action_idx = 0
    /\ step = NoStep
    /\ ranges = 0
    /\ modifications = 0
    /\ summary = [steps |-> 0]
    /\ last = NoLast
    /\ calls = [k \in CallKinds |-> 0]
    /\ exc = NoExc
    /\ result = -1
    /\ batch = NoBatch
    /\ frame = NoFrame
    /\ db = NoDb

NextOps ==
    \/ NextStep
    \/ ResolveSelector
    \/ ApplyAction
    \/ StepReturn
    \/ StepExcept
    \/ ApplyStepsReturn

SpecOps == InitOps /\ [][NextOps]_vars

\* ---- properties of pipeline.run -----------------------------------------
\* the errors run can fail with before it reaches open_document
PreOpenErrors ==
    {"Failed to read rules file",
     "rules.engine must be one of: auto, word, libre",
     "rules.steps must be a non-empty array.", "step is malformed",
     "Word COM engine requires Windows",
     "Failed to initialize Word COM", "TypeError",
     "python-docx is required"}

\* C1: once an engine has been constructed, run calls engine.shutdown()
\* exactly once before it finishes, on every exit path, also when
\* close_document raises: never more than once, not before the finally
\* block is reached, and exactly once when run is done.
C1_ShutdownOnce ==
    /\ calls["shutdown"] <= 1
    /\ (pc # "done" => calls["shutdown"] = 0)
    /\ (pc = "done" /\ engine # "none" => calls["shutdown"] = 1)

\* a run in which close_document raised, and shutdown was called all the same
C1_Witness ==
    /\ pc = "done"
    /\ engine = "WordComEngine"
    /\ exc.kind = "close_document"
    /\ calls["close_document"] = 1
    /\ calls["shutdown"] = 1

\* C2: when open_document returned a handle, close_document is called on it
\* exactly once, whether the run succeeds, reports warnings or fails, and
\* after the last snapshot, selector, action and save call of the run; when
\* open_document failed, close_document is never called.
C2_CloseOnce ==
    /\ [](/\ calls["close_document"] <= 1
          /\ (doc = "None" => calls["close_document"] = 0)
          /\ (pc \in {"finally_shutdown", "done"} /\ doc # "None"
                => calls["close_document"] = 1)
          /\ (calls["close_document"] = 1
                => pc \in {"finally_shutdown", "done"}))
    /\ [][calls["close_document"] = 1 =>
            /\ calls'["snapshot"] = calls["snapshot"]
            /\ calls'["export_pdf"] = calls["export_pdf"]
            /\ calls'["save_as_new_docx"] = calls["save_as_new_docx"]
            /\ calls'["open_document"] = calls["open_document"]
            /\ last' = last
            /\ docstate' = docstate]_vars

\* a successful run that reported a safety warning and closed its document
C2_Witness ==
    /\ pc = "done"
    /\ result = 0
    /\ Len(warnings) > 0
    /\ calls["export_pdf"] = 1
    /\ calls["close_document"] = 1

\* C3: if rule loading or engine construction fails, run returns 1 and has
\* called neither open_document nor a selector or action primitive nor
\* save/export: no document is opened or changed.
C3_NoOpenOnEarlyFailure ==
    /\ (exc.kind \in PreOpenErrors =>
          /\ pc = "done"
          /\ result = 1
          /\ engine = "none"
          /\ \A k \in CallKinds : calls[k] = 0
          /\ doc = "None"
          /\ docstate = NoDocument
          /\ last = NoLast)
    /\ (pc = "done" /\ engine = "none" => exc.kind \in PreOpenErrors)

\* the rules loaded and allow text changes, then no engine could be constructed
C3_Witness ==
    /\ pc = "done"
    /\ rules.safety.allow_text_changes
    /\ exc.kind = "TypeError"
    /\ result = 1

\* ---- properties of ops.apply_steps --------------------------------------
TextChangeDisallowed == "requires text changes but allow_text_changes=False"

\* C4: when selector resolution or an action of step k raises, apply_steps
\* re-raises the error wrapped with step k's name, and with the failing
\* action's type when an action raised; after the raising call no selector
\* and no action is executed, in step k or in a later step.
C4_StepFailureWrapped ==
    /\ [](pc = "raised" =>
            /\ last.outcome = "raised"
            /\ exc.kind = last.error
            /\ exc.step = last.step
            /\ exc.step >= 1
            /\ exc.action = (IF last.op = "action" THEN last.type ELSE ""))
    /\ [][last.outcome = "raised" =>
            /\ last' = last
            /\ docstate' = docstate
            /\ pc' = "raised"]_vars

\* the second step's action raised after the first step was applied
C4_Witness ==
    /\ pc = "raised"
    /\ last.op = "action"
    /\ last.step = 2
    /\ exc.step = 2
    /\ exc.action = "numbering"
    /\ exc.kind = "primitive"

\* C5: a text-mutating action dispatched with safety.allow_text_changes
\* False and no allow_text_change key of its own raises before any engine
\* primitive is called, and the document is as it was before the action.
C5_TextGate ==
    /\ [](/\ last.op = "action"
          /\ last.type \in text_changing_actions
          /\ last.allow_text_change = "absent"
          /\ ~rules.safety.allow_text_changes
          => /\ last.outcome = "raised"
             /\ last.error = TextChangeDisallowed
             /\ last.primitives = 0
             /\ last.recipes = 0
             /\ last.effect = "none")
    /\ [][/\ pc = "action_loop" /\ pc' \in {"action_loop", "step_except"}
          /\ last'.type \in text_changing_actions
          /\ last'.allow_text_change = "absent"
          /\ ~rules.safety.allow_text_changes
          => /\ docstate' = docstate
             /\ modifications' = modifications
             /\ pc' = "step_except"]_vars

\* bookmark_text was refused under allow_text_changes=False
C5_Witness ==
    /\ pc = "raised"
    /\ ~rules.safety.allow_text_changes
    /\ last.type = "bookmark_text"
    /\ last.allow_text_change = "absent"
    /\ exc.kind = TextChangeDisallowed
    /\ exc.action = "bookmark_text"

\* C6: an action type that is not a recognized action name makes
\* _apply_action raise: it returns no count and calls no engine primitive;
\* the enclosing step fails and the run returns 1, with no later step
\* recorded and nothing exported.
C6_UnknownAction ==
    /\ (last.op = "action" /\ last.type \notin ActionTypes =>
          /\ last.outcome = "raised"
          /\ last.error = "Unknown action type"
          /\ last.detail.names = last.type
          /\ last.primitives = 0
          /\ last.recipes = 0
          /\ last.effect = "none"
          /\ exc.kind = "Unknown action type"
          /\ exc.action = last.type
          /\ pc \in {"step_except", "except"})
    /\ (exc.kind = "Unknown action type" =>
          /\ pc \in {"step_except", "except", "finally_close",
                     "finally_shutdown", "done"}
          /\ result \in {-1, 1}
          /\ (pc \in {"finally_close", "finally_shutdown", "done"} =>
                /\ result = 1
                /\ exc.step >= 1
                /\ summary.steps = 0)
          /\ calls["export_pdf"] = 0
          /\ calls["write_audit"] = 0)

\* a run whose second step listed format_text returned 1
C6_Witness ==
    /\ pc = "done"
    /\ result = 1
    /\ exc.kind = "Unknown action type"
    /\ exc.action = "format_text"
    /\ exc.step = 2
    /\ calls["close_document"] = 1

\* C7: a selector whose key is none of document, by_style, by_regex,
\* by_bookmark, by_content_control, by_table, by_range makes
\* _resolve_selector raise; it returns no list, empty or not, and calls no
\* engine selector primitive.
C7_UnknownSelector ==
    last.op = "selector" /\ last.tag \notin SelectorTags =>
        /\ last.outcome = "raised"
        /\ last.error = "Unknown selector type"
        /\ last.primitives = 0
        /\ exc.kind = "Unknown selector type"
        /\ pc \in {"step_except", "raised"}

\* the selector {by_paragraph: ...} of the first step was rejected
C7_Witness ==
    /\ pc = "raised"
    /\ last.op = "selector"
    /\ last.tag = "by_paragraph"
    /\ exc.kind = "Unknown selector type"
    /\ exc.step = 1

\* C8: when the recognized selector of a step resolved to an empty range
\* list, no action of the step calls an engine primitive or a recipe, the
\* step's modification count stays 0 and no action raises, whatever the
\* action types.
C8_EmptySelectionNoAction ==
    pc \in {"action_loop", "step_except"} /\ last.op = "action" /\ ranges = 0 =>
        /\ last.outcome = "returned"
        /\ last.primitives = 0
        /\ last.recipes = 0
        /\ last.effect = "none"
        /\ modifications = 0

\* C9: a word_recipe action with enabled=false returns 0 without a registry
\* lookup, a recipe invocation or an engine primitive, for every name and
\* every engine; the document and the step's count are as before and the
\* step goes on.
C9_DisabledRecipe ==
    /\ [](last.op = "action" /\ last.type = "word_recipe" /\ ~last.enabled =>
            /\ last.outcome = "returned"
            /\ last.count = 0
            /\ last.lookups = 0
            /\ last.recipes = 0
            /\ last.primitives = 0
            /\ last.effect = "none")
    /\ [][/\ pc = "action_loop" /\ pc' \in {"action_loop", "step_except"}
          /\ last'.type = "word_recipe"
          /\ ~last'.enabled
          => /\ docstate' = docstate
             /\ modifications' = modifications
             /\ action_idx' = action_idx + 1
             /\ pc' = "action_loop"]_vars

\* a disabled recipe with an unregistered name was skipped on a DocxEngine
C9_Witness ==
    /\ engine = "DocxEngine"
    /\ pc = "step_loop"
    /\ summary.steps = 1
    /\ last.type = "word_recipe"
    /\ last.name = "does_not_exist"
    /\ ~last.enabled
    /\ last.outcome = "returned"

\* C10 as stated: on every engine, an enabled word_recipe whose name is not
\* registered fails with the unknown-recipe error naming the recipe and
\* listing the registered names, and no recipe is invoked.
C10_UnknownRecipeEveryEngine ==
    /\ last.op = "action"
    /\ last.type = "word_recipe"
    /\ last.enabled
    /\ last.name \notin RECIPE_REGISTRY
    => /\ last.outcome = "raised"
       /\ last.error = "Unknown word_recipe"
       /\ last.detail = [names |-> last.name, available |-> RECIPE_REGISTRY]
       /\ last.recipes = 0

\* C10, amended: an enabled word_recipe whose name is not registered fails
\* and invokes no recipe; on a WordComEngine the error is the unknown-recipe
\* error naming the recipe and listing the registered names, on any other
\* engine it is the "requires the WordComEngine" error, raised before the
\* registry is looked at.
C10_UnknownRecipe ==
    /\ last.op = "action"
    /\ last.type = "word_recipe"
    /\ last.enabled
    /\ last.name \notin RECIPE_REGISTRY
    => /\ last.outcome = "raised"
       /\ last.recipes = 0
       /\ last.effect = "none"
       /\ pc \in {"step_except", "raised"}
       /\ (engine = "WordComEngine" =>
             /\ last.error = "Unknown word_recipe"
             /\ last.lookups = 1
             /\ last.detail = [names |-> last.name, available |-> RECIPE_REGISTRY])
       /\ (engine # "WordComEngine" =>
             /\ last.error = "requires the WordComEngine"
             /\ last.lookups = 0)

\* does_not_exist was asked for on a WordComEngine
C10_Witness ==
    /\ engine = "WordComEngine"
    /\ pc = "raised"
    /\ last.name = "does_not_exist"
    /\ last.enabled
    /\ exc.kind = "Unknown word_recipe"
    /\ exc.action = "word_recipe"
    /\ last.detail.available = RECIPE_REGISTRY

\* C11: an enabled word_recipe dispatched while the engine is not a
\* WordComEngine fails with the "requires the WordComEngine" error, for a
\* registered name as for any other, before the registry is looked up and
\* before a recipe callable is invoked; the document stays as it was.
C11_RecipeNeedsWordEngine ==
    /\ last.op = "action"
    /\ last.type = "word_recipe"
    /\ last.enabled
    /\ engine # "WordComEngine"
    => /\ last.outcome = "raised"
       /\ last.error = "requires the WordComEngine"
       /\ last.detail.names = last.name
       /\ last.lookups = 0
       /\ last.recipes = 0
       /\ last.effect = "none"
       /\ exc.kind = "requires the WordComEngine"
       /\ exc.action = "word_recipe"
       /\ pc \in {"step_except", "raised"}

\* the registered recipe lists_dot_to_emdash was asked for on a DocxEngine
C11_Witness ==
    /\ engine = "DocxEngine"
    /\ pc = "raised"
    /\ last.type = "word_recipe"
    /\ last.name = "lists_dot_to_emdash"
    /\ last.enabled
    /\ exc.kind = "requires the WordComEngine"
    /\ exc.step = 1

\* ---- audit_export.compare called on its own -----------------------------
\* the snapshots handed to compare: any counts after, and before any of the
\* three counts compare reads
PostSnapshots == [SnapshotFields -> 0..MaxCount]

PreSnapshots ==
    {p \in PostSnapshots :
        \A f \in {"content_control_count", "tables_count", "headings_by_level"} :
            p[f] = 0}

InitCompare ==
    /\ pc = "compare_call"
    /\ entry = "compare"
    /\ rules \in [safety : SafetyValues]
    /\ dry_run = FALSE
    /\ engine = "none"
    /\ doc = "None"
    /\ docstate = NoDocument
    /\ pre \in PreSnapshots
    /\ post \in PostSnapshots
    /\ warnings = <<>>
    /\ step_idx = 0
    /\ action_idx = 0
    /\ step = NoStep
    /\ ranges = 0
    /\ modifications = 0
    /\ summary = [steps |-> 0]
    /\ last = NoLast
    /\ calls = [k \in CallKinds |-> 0]
    /\ exc = NoExc
    /\ result = -1
    /\ batch = NoBatch
    /\ frame = NoFrame
    /\ db = NoDb

\* warnings = compare(pre, post, safety, logger)
CompareCall ==
    /\ pc = "compare_call"
    /\ warnings' = compare(pre, post, rules.safety)
    /\ pc' = "returned"
    /\ UNCHANGED <<batch, frame, db, entry, rules, dry_run, engine, doc, docstate, pre, post,
                   step_idx, action_idx, step, ranges, modifications, summary,
                   last, calls, exc, result>>

NextCompare == CompareCall

SpecCompare == InitCompare /\ [][NextCompare]_vars

\* the three counts compare looks at, each with its safety flag and text
Checked ==
    {<<"paragraph_count", "require_same_paragraph_count", "Paragraph count changed">>,
     <<"bookmark_count", "require_same_bookmark_count", "Bookmark count changed">>,
     <<"inline_shape_count", "require_same_inline_shape_count",
       "Inline shape count changed">>}

\* C12: compare never raises and returns exactly one warning for each of
\* the paragraph, bookmark and inline-shape counts whose safety flag is set
\* and whose pre and post values differ, giving both values, and no other
\* warning: a difference in the content-control, table or heading counts
\* yields none.
C12_CompareWarnings ==
    entry = "compare" /\ pc = "returned" =>
        /\ exc = NoExc
        /\ \A c \in Checked :
             LET hits == {i \in 1..Len(warnings) : warnings[i].text = c[3]} IN
             IF rules.safety[c[2]] /\ pre[c[1]] # post[c[1]]
             THEN /\ Cardinality(hits) = 1
                  /\ \A i \in hits :
                       warnings[i] = Warning(c[3], pre[c[1]], post[c[1]])
             ELSE hits = {}
        /\ \A i \in 1..Len(warnings) : \E c \in Checked : warnings[i].text = c[3]

\* only the bookmark count is watched; it and the table count changed
C12_Witness ==
    /\ entry = "compare"
    /\ pc = "returned"
    /\ rules.safety.require_same_bookmark_count
    /\ ~rules.safety.require_same_paragraph_count
    /\ pre.bookmark_count # post.bookmark_count
    /\ pre.paragraph_count # post.paragraph_count
    /\ pre.tables_count # post.tables_count
    /\ pre.content_control_count # post.content_control_count
    /\ Len(warnings) = 1
    /\ warnings[1].text = "Bookmark count changed"

\* ---- properties of pipeline.run, after the steps ------------------------
\* C13: safety warnings never block a run: when compare returned warnings,
\* the run goes on to artifact saving and audit writing; the only failures
\* left are those of the output folder, the export, the audit file and the
\* close, and without one of them the run exports (unless dry-run) and
\* returns 0, as it does without warnings.
C13_WarningsDoNotBlock ==
    /\ (Len(warnings) > 0 =>
          /\ pc \in {"save_artifacts", "write_audit", "except", "finally_close",
                     "finally_shutdown", "done"}
          /\ exc.kind \in {"none", "mkdir", "export_pdf", "write_audit_file",
                           "close_document"})
    /\ (pc = "done" /\ engine # "none" /\ exc = NoExc =>
          /\ result = 0
          /\ calls["export_pdf"] = (IF dry_run THEN 0 ELSE 1))

\* a run that reported two warnings, exported, wrote its audit file and
\* returned 0
C13_Witness ==
    /\ pc = "done"
    /\ Len(warnings) = 2
    /\ exc = NoExc
    /\ calls["export_pdf"] = 1
    /\ calls["write_audit"] = 1
    /\ result = 0

\* C14: in dry-run mode run applies no step (no selector and no action is
\* dispatched, the document stays as opened) and calls neither
\* save_as_new_docx nor export_pdf; the pre and post snapshots are taken and
\* compared, and the document is still closed.
C14_DryRun ==
    dry_run =>
        /\ last = NoLast
        /\ step_idx = 0
        /\ summary.steps = 0
        /\ docstate \in Documents \cup {NoDocument}
        /\ calls["export_pdf"] = 0
        /\ calls["save_as_new_docx"] = 0
        /\ (pc \in {"save_artifacts", "write_audit"} =>
              /\ calls["snapshot"] = 2
              /\ pre = Snapshot(docstate)
              /\ post = Snapshot(docstate)
              /\ warnings = <<>>)
        /\ (pc = "done" /\ exc = NoExc /\ engine # "none" =>
              /\ calls["snapshot"] = 2
              /\ result = 0)
        /\ (pc = "done" /\ doc # "None" => calls["close_document"] = 1)

\* a dry run that took both snapshots, wrote its audit file and closed
C14_Witness ==
    /\ dry_run
    /\ pc = "done"
    /\ result = 0
    /\ calls["snapshot"] = 2
    /\ post = pre
    /\ calls["write_audit"] = 1
    /\ calls["close_document"] = 1

\* C15: every non-dry run in which all steps succeed and that returns 0
\* has called engine.save_as_new_docx on the open handle, once, before
\* close_document.
C15_DocxSaved ==
    pc = "done" /\ ~dry_run /\ result = 0 => calls["save_as_new_docx"] = 1

\* C16: when engine.export_pdf raises during artifact saving, the run
\* treats it as a warning: the DOCX is saved and run returns 0.
C16_ExportFailureNonFatal ==
    pc = "done" /\ exc.kind = "export_pdf" =>
        /\ result = 0
        /\ calls["save_as_new_docx"] = 1

\* ---- pipeline.run_batch -------------------------------------------------
InputPaths == {"a.docx", "b.docx"}

\* an item of inputs by the paths it stands for: itself, or what glob.glob
\* returns for it when it holds one of * ? [
InputItems ==
    [glob : {FALSE}, matches : [1..1 -> InputPaths]]
      \cup
    [glob : {TRUE},
     matches : UNION {[1..n -> InputPaths] : n \in 0..MaxMatches}]

\* lines 115-121: paths, in the order of inputs
RECURSIVE Expand(_)
Expand(inputs) ==
    IF inputs = <<>> THEN <<>>
    ELSE Head(inputs).matches \o Expand(Tail(inputs))

\* what a call of run can end with: the code it returns, or -1 for the
\* exception of close_document that leaves its finally block
RunOutcomes == {0, 1, -1}

InitBatch ==
    /\ pc = "batch_expand"
    /\ entry = "run_batch"
    /\ rules = NoRules
    /\ dry_run = FALSE
    /\ engine = "none"
    /\ doc = "None"
    /\ docstate = NoDocument
    /\ pre = NoSnapshot
    /\ post = NoSnapshot
    /\ warnings = <<>>
    /\ step_idx = 0
    /\ action_idx = 0
    /\ step = NoStep
    /\ ranges = 0
    /\ modifications = 0
    /\ summary = [steps |-> 0]
    /\ last = NoLast
    /\ calls = [k \in CallKinds |-> 0]
    /\ exc = NoExc
    /\ result = -1
    /\ batch \in [inputs : UNION {[1..n -> InputItems] : n \in 0..MaxInputs},
                  paths : {<<>>}, runs : {<<>>}, overall : {0}]
    /\ frame = NoFrame
    /\ db = NoDb

\* run_batch, lines 115-125: expand the inputs; return 1 when nothing matched
ExpandInputs ==
    /\ pc = "batch_expand"
    /\ LET paths == Expand(batch.inputs) IN
         /\ batch' = [batch EXCEPT !.paths = paths]
         /\ IF paths = <<>>
            THEN result' = 1 /\ pc' = "batch_returned"
            ELSE pc' = "batch_loop" /\ UNCHANGED result
    /\ UNCHANGED <<frame, db, entry, rules, dry_run, engine, doc, docstate, pre, post, warnings,
                   step_idx, action_idx, step, ranges, modifications, summary,
                   last, calls, exc>>

\* BatchRun with overall = code assigned whatever the code is
BatchRun_last_code ==
    /\ pc = "batch_loop"
    /\ Len(batch.runs) < Len(batch.paths)
    /\ \E code \in RunOutcomes :
         LET p == batch.paths[Len(batch.runs) + 1] IN
         /\ batch' = [batch EXCEPT
                        !.runs = Append(@, [path |-> p, code |-> code]),
                        !.overall = IF code = -1 THEN @ ELSE code]
         /\ IF code = -1
            THEN pc' = "batch_raised" /\ exc' = Exc("close_document")
            ELSE pc' = "batch_loop" /\ UNCHANGED exc
    /\ UNCHANGED <<frame, db, entry, rules, dry_run, engine, doc, docstate, pre, post, warnings,
                   step_idx, action_idx, step, ranges, modifications, summary,
                   last, calls, result>>

\* run_batch, lines 128-139: run the next path and keep a non-zero code
BatchRun ==
    /\ pc = "batch_loop"
    /\ Len(batch.runs) < Len(batch.paths)
    /\ \E code \in RunOutcomes :
         LET p == batch.paths[Len(batch.runs) + 1] IN
         /\ batch' = [batch EXCEPT
                        !.runs = Append(@, [path |-> p, code |-> code]),
                        !.overall = IF code \notin {0, -1} THEN code ELSE @]
         /\ IF code = -1
            THEN pc' = "batch_raised" /\ exc' = Exc("close_document")
            ELSE pc' = "batch_loop" /\ UNCHANGED exc
    /\ UNCHANGED <<frame, db, entry, rules, dry_run, engine, doc, docstate, pre, post, warnings,
                   step_idx, action_idx, step, ranges, modifications, summary,
                   last, calls, result>>

\* run_batch, line 140: return overall
BatchReturn ==
    /\ pc = "batch_loop"
    /\ Len(batch.runs) = Len(batch.paths)
    /\ result' = batch.overall
    /\ pc' = "batch_returned"
    /\ UNCHANGED <<batch, frame, db, entry, rules, dry_run, engine, doc, docstate, pre, post,
                   warnings, step_idx, action_idx, step, ranges, modifications,
                   summary, last, calls, exc>>

NextBatch ==
    \/ ExpandInputs
    \/ BatchRun
    \/ BatchReturn

SpecBatch == InitBatch /\ [][NextBatch]_vars

\* the positions of the runs that returned a non-zero code
Failing == {k \in 1..Len(batch.runs) : batch.runs[k].code # 0}

\* C17: run_batch calls run once per path, in the order of the paths, and
\* goes on after a run that returned a non-zero code; when it returns after
\* a non-empty list of paths it has run them all, and it returns 0 if and
\* only if every run returned 0, else the code of the last run that did
\* not.  With no path matched it returns 1 and has run nothing.
C17_Batch ==
    /\ Len(batch.runs) <= Len(batch.paths)
    /\ \A k \in 1..Len(batch.runs) : batch.runs[k].path = batch.paths[k]
    /\ (pc = "batch_loop" => \A k \in 1..Len(batch.runs) : batch.runs[k].code # -1)
    /\ (pc = "batch_returned" /\ batch.paths # <<>> =>
          /\ Len(batch.runs) = Len(batch.paths)
          /\ batch.paths = Expand(batch.inputs)
          /\ (result = 0 <=> Failing = {})
          /\ (Failing # {} =>
                result = batch.runs[CHOOSE k \in Failing :
                                        \A j \in Failing : j <= k].code))
    /\ (pc = "batch_returned" /\ batch.paths = <<>> =>
          /\ result = 1
          /\ batch.runs = <<>>)

\* three paths from a plain item and a pattern; the first run failed, the
\* others did not, and run_batch returned 1
C17_Witness ==
    /\ pc = "batch_returned"
    /\ Len(batch.inputs) = 2
    /\ Len(batch.paths) = 3
    /\ batch.runs[1].code = 1
    /\ batch.runs[2].code = 0
    /\ batch.runs[3].code = 0
    /\ result = 1

\* ---- properties of rule loading -----------------------------------------
\* C18: a malformed rule set, an unrecognized selector tag or action type
\* included, is rejected while the rules are loaded: the error of an
\* unknown selector or action is raised before open_document is called and
\* before a step has touched a document.
C18_MalformedRejectedAtLoad ==
    exc.kind \in {"Unknown selector type", "Unknown action type"} =>
        /\ calls["open_document"] = 0
        /\ doc = "None"
        /\ docstate = NoDocument

\* C19: a run whose rule set has an empty step list opens the document,
\* takes a pre and a post snapshot that are equal, reports no warning and
\* closes the document.
C19_EmptyStepListRoundTrip ==
    pc = "done" /\ exc.kind = "rules.steps must be a non-empty array." =>
        /\ calls["open_document"] = 1
        /\ calls["snapshot"] = 2
        /\ pre = post
        /\ warnings = <<>>
        /\ calls["close_document"] = 1

\* ---- the whole-document selector ----------------------------------------
\* C20: a step with the selector {document: true} and a style_apply action,
\* run on a document of N paragraphs, counts N modifications, and the
\* paragraph count of the document is the same before and after.
C20_WholeDocumentStyleCount ==
    [][/\ pc = "action_loop" /\ pc' = "action_loop"
       /\ last.op = "selector"
       /\ last.tag = "document"
       /\ last'.type = "style_apply"
       => /\ modifications' = docstate.paragraph_count
          /\ docstate'.paragraph_count = docstate.paragraph_count]_vars

\* ---- the DocxEngine ------------------------------------------------------
\* C21: on a DocxEngine the selectors by_bookmark and by_content_control
\* resolve to an empty list and never raise, so the step goes on with zero
\* ranges.
C21_SoftSelectors ==
    /\ engine = "DocxEngine"
    /\ last.op = "selector"
    /\ last.tag \in {"by_bookmark", "by_content_control"}
    => /\ last.outcome = "returned"
       /\ last.count = 0
       /\ pc = "action_loop"
       /\ ranges = 0

\* C22: on a DocxEngine each of content_control_text, bookmark_text,
\* raw_word_com and field_update that passes the text gate makes the step
\* fail: _apply_action raises and returns no modification count for it.
C22_UnsupportedActionsFail ==
    /\ engine = "DocxEngine"
    /\ last.op = "action"
    /\ last.type \in {"content_control_text", "bookmark_text", "raw_word_com",
                      "field_update"}
    => /\ last.outcome = "raised"
       /\ pc \in {"step_except", "raised"}

\* ---- functions called on their own --------------------------------------
\* the variables of pipeline.run and run_batch while another function is
\* called on its own
Standalone ==
    /\ rules = NoRules
    /\ dry_run = FALSE
    /\ doc = "None"
    /\ docstate = NoDocument
    /\ pre = NoSnapshot
    /\ post = NoSnapshot
    /\ warnings = <<>>
    /\ step_idx = 0
    /\ action_idx = 0
    /\ step = NoStep
    /\ ranges = 0
    /\ modifications = 0
    /\ summary = [steps |-> 0]
    /\ last = NoLast
    /\ calls = [k \in CallKinds |-> 0]
    /\ batch = NoBatch

\* ---- engines.pick_engine called on its own ------------------------------
\* the hints a caller can pass: the documented ones and one that is none of
\* them, which takes the else branch as "auto" does
EngineHints == {"auto", "word", "libre", "docx", "other"}

\* what platform.system() can return
Platforms == {"Windows", "Linux", "Darwin"}

InitPick ==
    /\ Standalone
    /\ pc = "pick_call"
    /\ entry = "pick_engine"
    /\ engine = "none"
    /\ exc = NoExc
    /\ result = -1
    /\ db = NoDb
    /\ frame \in [fn : {"pick_engine"}, engine_hint : EngineHints,
                  platform : Platforms, word_ok : BOOLEAN, docx_ok : BOOLEAN]

\* engine = pick_engine(engine_hint)
PickCall ==
    /\ pc = "pick_call"
    /\ LET r == pick_engine(frame.engine_hint, frame.platform,
                            frame.word_ok, frame.docx_ok) IN
         /\ engine' = r.engine
         /\ IF r.engine # "none"
            THEN pc' = "returned" /\ UNCHANGED exc
            ELSE pc' = "raised" /\ exc' = Exc(r.error)
    /\ UNCHANGED <<batch, frame, db, entry, rules, dry_run, doc, docstate, pre, post,
                   warnings, step_idx, action_idx, step, ranges, modifications,
                   summary, last, calls, result>>

NextPick == PickCall

SpecPick == InitPick /\ [][NextPick]_vars

\* C23: pick_engine("auto") returns the WordComEngine when the platform is
\* Windows and its construction succeeds; otherwise it returns the
\* DocxEngine when that constructs; and when no engine can be constructed it
\* raises the "No engine available" RuntimeError and no other exception.
C23_AutoSelection ==
    /\ entry = "pick_engine"
    /\ frame.engine_hint = "auto"
    /\ pc # "pick_call"
    => IF frame.platform = "Windows" /\ frame.word_ok
       THEN pc = "returned" /\ engine = "WordComEngine"
       ELSE IF frame.docx_ok
       THEN pc = "returned" /\ engine = "DocxEngine"
       ELSE pc = "raised" /\ exc.kind = "No engine available"

\* ---- ops.discover_word_recipes called on its own ------------------------
\* how often discovery is called in the process
MaxCalls == 2

\* pkgutil.iter_modules over recipes_word/: some of its modules, in the
\* order of the directory listing
RecipeModules ==
    <<"_utils", "add_space_before_emdash_paragraphs", "engines",
      "fix_aos_all_parts", "lists_dot_to_emdash">>

\* the callables of a module whose name ends in _py, in dir() order
Exports(mod_name) ==
    IF mod_name = "add_space_before_emdash_paragraphs"
    THEN <<"add_space_before_emdash_paragraphs_py">>
    ELSE IF mod_name = "fix_aos_all_parts" THEN <<"fix_aos_all_parts_py">>
    ELSE IF mod_name = "lists_dot_to_emdash" THEN <<"lists_dot_to_emdash_py">>
    ELSE <<>>

\* the modules whose import can fail in a process (win32com missing, a syntax
\* error, ...); a failed import is attempted again by the next call and
\* fails again
Importable == {RecipeModules[k] : k \in 2..Len(RecipeModules)}

EmptyRegistry == [k \in {} |-> ""]

InitDiscover ==
    /\ Standalone
    /\ pc = "discover_call"
    /\ entry = "discover_word_recipes"
    /\ engine = "none"
    /\ exc = NoExc
    /\ result = -1
    /\ db = NoDb
    /\ frame \in [fn : {"discover_word_recipes"}, failing : SUBSET Importable,
                  i : {0}, registry : {EmptyRegistry}, results : {<<>>}]

\* registry: dict[str, Any] = {} and the start of the for loop
DiscoverCall ==
    /\ pc \in {"discover_call", "returned"}
    /\ Len(frame.results) < MaxCalls
    /\ frame' = [frame EXCEPT !.i = 1, !.registry = EmptyRegistry]
    /\ pc' = "discover_loop"
    /\ UNCHANGED <<batch, db, entry, rules, dry_run, engine, doc, docstate, pre, post,
                   warnings, step_idx, action_idx, step, ranges, modifications,
                   summary, last, calls, exc, result>>

\* registry[recipe_name] = fn for every callable attribute ending in _py
Register(registry, mod_name) ==
    IF Exports(mod_name) = <<>> THEN registry
    ELSE [k \in DOMAIN registry \cup {mod_name} |->
            IF k = mod_name THEN Exports(mod_name)[Len(Exports(mod_name))]
            ELSE registry[k]]

\* an import error leaves the loop and the function
DiscoverModule_propagates ==
    /\ pc = "discover_loop"
    /\ frame.i <= Len(RecipeModules)
    /\ LET mod_name == RecipeModules[frame.i] IN
         IF mod_name = "_utils"
         THEN frame' = [frame EXCEPT !.i = @ + 1] /\ pc' = pc /\ UNCHANGED exc
         ELSE IF mod_name \in frame.failing
         THEN pc' = "raised" /\ exc' = Exc("ImportError") /\ UNCHANGED frame
         ELSE /\ frame' = [frame EXCEPT !.i = @ + 1,
                                        !.registry = Register(@, mod_name)]
              /\ pc' = pc /\ UNCHANGED exc
    /\ UNCHANGED <<batch, db, entry, rules, dry_run, engine, doc, docstate, pre, post,
                   warnings, step_idx, action_idx, step, ranges, modifications,
                   summary, last, calls, result>>

\* one iteration of the for loop: skip a name starting with "_"; import the
\* module and register it; except Exception: log a warning and go on
DiscoverModule ==
    /\ pc = "discover_loop"
    /\ frame.i <= Len(RecipeModules)
    /\ LET mod_name == RecipeModules[frame.i] IN
         IF mod_name = "_utils" \/ mod_name \in frame.failing
         THEN frame' = [frame EXCEPT !.i = @ + 1]
         ELSE frame' = [frame EXCEPT !.i = @ + 1,
                                     !.registry = Register(@, mod_name)]
    /\ pc' = pc
    /\ UNCHANGED <<batch, db, entry, rules, dry_run, engine, doc, docstate, pre, post,
                   warnings, step_idx, action_idx, step, ranges, modifications,
                   summary, last, calls, exc, result>>

\* return registry
DiscoverReturn ==
    /\ pc = "discover_loop"
    /\ frame.i > Len(RecipeModules)
    /\ frame' = [frame EXCEPT !.results = Append(@, frame.registry)]
    /\ pc' = "returned"
    /\ UNCHANGED <<batch, db, entry, rules, dry_run, engine, doc, docstate, pre, post,
                   warnings, step_idx, action_idx, step, ranges, modifications,
                   summary, last, calls, exc, result>>

NextDiscover ==
    \/ DiscoverCall
    \/ DiscoverModule
    \/ DiscoverReturn

SpecDiscover == InitDiscover /\ [][NextDiscover]_vars

\* C24: discover_word_recipes is idempotent and failure-isolated: it never
\* raises; whatever modules fail to import, each mapping it returns has as
\* keys exactly the other modules that export a callable ending in _py, each
\* mapped to a callable of that module; and two calls in one process return
\* the same mapping.
C24_Discovery ==
    entry = "discover_word_recipes" =>
        /\ pc # "raised"
        /\ \A c \in 1..Len(frame.results) :
             /\ DOMAIN frame.results[c] =
                  {RecipeModules[k] : k \in {j \in 1..Len(RecipeModules) :
                      /\ RecipeModules[j] \notin frame.failing
                      /\ Exports(RecipeModules[j]) # <<>>}}
             /\ \A m \in DOMAIN frame.results[c] :
                  \E a \in 1..Len(Exports(m)) : frame.results[c][m] = Exports(m)[a]
        /\ (Len(frame.results) = MaxCalls => frame.results[1] = frame.results[2])

\* two calls returned while one recipe module failed to import and another
\* was registered
C24_Witness ==
    /\ entry = "discover_word_recipes"
    /\ pc = "returned"
    /\ Len(frame.results) = MaxCalls
    /\ "lists_dot_to_emdash" \in frame.failing
    /\ "add_space_before_emdash_paragraphs" \in DOMAIN frame.results[2]

\* ---- recipes_word/lists_dot_to_emdash run twice on one document ---------
\* the longest paragraph text, in characters
MaxText == 4

\* the characters of a paragraph: a digit, the dot, the em dash (U+2014,
\* written "--" here), a space and a letter
Alphabet == {"1", ".", "--", " ", "a"}

Texts == UNION {[1..n -> Alphabet] : n \in 0..MaxText}

\* Find with MatchWildcards and Text = "([0-9]{1,}).": the position of the
\* first dot that follows a digit, 0 when Execute finds nothing
FindNumberDot(text) ==
    LET hits == {i \in 2..Len(text) : text[i] = "." /\ text[i - 1] = "1"} IN
    IF hits = {} THEN 0 ELSE CHOOSE i \in hits : \A j \in hits : i <= j

\* Find with Text = "--([ ^t]{1,})": the position of the first em dash that
\* is followed by a space, 0 when there is none
FindDashSpace(text) ==
    LET hits == {i \in 1..Len(text) - 1 : text[i] = "--" /\ text[i + 1] = " "} IN
    IF hits = {} THEN 0 ELSE CHOOSE i \in hits : \A j \in hits : i <= j

\* the end of the run of spaces that starts after position i
SpacesEnd(text, i) ==
    CHOOSE j \in i..Len(text) :
        /\ \A k \in i + 1..j : text[k] = " "
        /\ (j < Len(text) => text[j + 1] # " ")

\* str.strip() on the left: para_start = para.Range.Text[:20].strip()
LStrip(text) ==
    LET lead == {i \in 0..Len(text) : \A k \in 1..i : text[k] = " "}
        n == CHOOSE i \in lead : \A j \in lead : j <= i IN
    SubSeq(text, n + 1, Len(text))

\* re.match(r'^(\d+)\.\s*', para_start): digits and a dot at the start
StartsWithNumberDot(text) ==
    \E d \in 1..Len(text) - 1 :
        /\ \A k \in 1..d : text[k] = "1"
        /\ text[d + 1] = "."

\* step 3 of the recipe on one paragraph: 3a replaces the dot of the first
\* "digits." by an em dash (Replace=wdReplaceOne); the fallback does so when
\* 3a replaced nothing and the text starts with digits and a dot; 3b removes
\* the spaces after the first em dash that has some
ProcessParagraph(text) ==
    LET d == FindNumberDot(text)
        fallback == d = 0 /\ StartsWithNumberDot(LStrip(text))
        a == IF d # 0 THEN [text EXCEPT ![d] = "--"]
             ELSE IF fallback
             THEN [text EXCEPT ![FindNumberDot(text)] = "--"]
             ELSE text
        s == FindDashSpace(a)
        b == IF s = 0 THEN a
             ELSE SubSeq(a, 1, s) \o SubSeq(a, SpacesEnd(a, s) + 1, Len(a)) IN
    [text |-> b, replaced |-> d # 0 \/ fallback]

InitRecipe ==
    /\ Standalone
    /\ pc = "recipe_call"
    /\ entry = "lists_dot_to_emdash"
    /\ engine = "WordComEngine"
    /\ exc = NoExc
    /\ result = -1
    /\ db = NoDb
    /\ frame \in [fn : {"lists_dot_to_emdash"}, paragraphs : [1..1 -> Texts],
                  results : {<<>>}]

\* lists_dot_to_emdash_py(doc, 1, 4) on a one-page document: every paragraph
\* is processed, changed counts the paragraphs with a replacement
RecipeRun ==
    /\ pc = "recipe_call"
    /\ Len(frame.results) < MaxCalls
    /\ LET done == [k \in DOMAIN frame.paragraphs |->
                       ProcessParagraph(frame.paragraphs[k])]
           changed == Cardinality({k \in DOMAIN done : done[k].replaced}) IN
         frame' = [frame EXCEPT
                     !.paragraphs = [k \in DOMAIN done |-> done[k].text],
                     !.results = Append(@, [ok |-> TRUE, count_updated |-> changed,
                                            before |-> frame.paragraphs])]
    /\ pc' = pc
    /\ UNCHANGED <<batch, db, entry, rules, dry_run, engine, doc, docstate, pre, post,
                   warnings, step_idx, action_idx, step, ranges, modifications,
                   summary, last, calls, exc, result>>

NextRecipe == RecipeRun

SpecRecipe == InitRecipe /\ [][NextRecipe]_vars

\* C25: the dot-to-em-dash recipe is idempotent: a second run with the same
\* page range on the output of the first run reports count_updated = 0 and
\* changes no paragraph text.
C25_Idempotent ==
    /\ entry = "lists_dot_to_emdash"
    /\ Len(frame.results) = 2
    => /\ frame.results[2].count_updated = 0
       /\ frame.paragraphs = frame.results[2].before

\* ---- the warnings list of a recipe's result -----------------------------
\* the most paragraphs (list items) of a document
MaxItems == 12

\* errors[:10] in add_space_before_emdash_paragraphs: the cap of the one
\* recipe that has one
WarningsCap == 10

RecipesWithWarnings ==
    {"lists_dot_to_emdash", "enforce_numeric_alignment_all_lists",
     "add_space_before_emdash_paragraphs"}

\* n entries of one kind
Entries(n, kind) == [k \in 1..n |-> kind]

\* the errors list a recipe has accumulated after its loop over a one-page
\* document with `items` paragraphs of which `failed` raised: every recipe
\* catches the exception of an item and goes on with the next.
\* lists_dot_to_emdash also appends three entries for the page and a DEBUG
\* entry for every paragraph it processes.
RecipeErrors(recipe, items, failed) ==
    IF recipe = "lists_dot_to_emdash"
    THEN <<"DEBUG: Page sample before convert", "INFO: Called ConvertNumbersToText",
           "INFO: No paragraph-level automatic numbering found">>
         \o Entries(failed, "Error processing paragraph")
         \o Entries(items - failed, "DEBUG: Para start")
    ELSE IF recipe = "enforce_numeric_alignment_all_lists"
    THEN Entries(failed, "Error processing list level")
    ELSE Entries(failed, "Error processing paragraph at position")

\* result["warnings"]: errors[:10] and a summary entry in
\* add_space_before_emdash_paragraphs, the whole list in the other two
RecipeWarnings(recipe, errors) ==
    IF recipe = "add_space_before_emdash_paragraphs" /\ Len(errors) > WarningsCap
    THEN SubSeq(errors, 1, WarningsCap) \o <<"... and more errors">>
    ELSE errors

InitWarnings ==
    /\ Standalone
    /\ pc = "recipe_call"
    /\ entry = "recipe_warnings"
    /\ engine = "WordComEngine"
    /\ exc = NoExc
    /\ result = -1
    /\ db = NoDb
    /\ \E recipe \in RecipesWithWarnings, items \in 0..MaxItems :
         \E failed \in 0..items :
           frame = [fn |-> recipe, items |-> items, failed |-> failed,
                    result |-> [ok |-> FALSE, warnings |-> <<>>]]

\* result = recipe(doc): ok is True although items failed
RecipeReturn ==
    /\ pc = "recipe_call"
    /\ frame' = [frame EXCEPT !.result =
                   [ok |-> TRUE,
                    warnings |-> RecipeWarnings(frame.fn,
                                    RecipeErrors(frame.fn, frame.items, frame.failed))]]
    /\ pc' = "returned"
    /\ UNCHANGED <<batch, db, entry, rules, dry_run, engine, doc, docstate, pre, post,
                   warnings, step_idx, action_idx, step, ranges, modifications,
                   summary, last, calls, exc, result>>

NextWarnings == RecipeReturn

SpecWarnings == InitWarnings /\ [][NextWarnings]_vars

\* C26: for every recipe and every document the warnings list of the result
\* has at most the cap of entries plus one summary entry, however many
\* paragraphs or per-item failures there were, and per-item failures do not
\* abort the recipe.
C26_WarningsBounded ==
    /\ entry = "recipe_warnings"
    /\ pc = "returned"
    => /\ frame.result.ok
       /\ Len(frame.result.warnings) <= WarningsCap + 1

\* ---- ops._apply_action called on a word_recipe action -------------------
InitDispatch ==
    /\ Standalone
    /\ pc = "action_call"
    /\ entry = "_apply_action"
    /\ engine \in EngineKinds
    /\ exc = NoExc
    /\ result = -1
    /\ db = NoDb
    /\ \E r \in RecipeResults, a \in {x \in Actions : x.type = "word_recipe"} :
         frame = [fn |-> "recipe", result |-> r, action |-> a]

\* mods = _apply_action(engine, doc, ranges, "word_recipe", config, safety, log)
\* with a recipe callable that returns frame.result
DispatchRecipe ==
    /\ pc = "action_call"
    /\ \E o \in _apply_action(engine, ranges, frame.action, rules.safety) :
         /\ last' = Call("action", 0, NoSelector, frame.action, o)
         /\ IF o.outcome = "returned"
            THEN pc' = "returned" /\ UNCHANGED exc
            ELSE pc' = "raised" /\ exc' = Exc(o.error)
    /\ UNCHANGED <<batch, frame, db, entry, rules, dry_run, engine, doc, docstate, pre,
                   post, warnings, step_idx, action_idx, step, ranges, modifications,
                   summary, calls, result>>

NextDispatch == DispatchRecipe

SpecDispatch == InitDispatch /\ [][NextDispatch]_vars

\* C27: when the dispatcher has invoked a recipe, it returns (also for a
\* result with ok = false) and its modification count depends on the result
\* record only: items_touched when the key is present, otherwise 1 when ok
\* is true and 0 when it is false; count_updated does not enter the count.
C27_RecipeCount ==
    /\ entry = "_apply_action"
    /\ last.op = "action"
    /\ last.recipes = 1
    => /\ pc = "returned"
       /\ last.outcome = "returned"
       /\ exc = NoExc
       /\ last.count = IF frame.result.items_touched # -1
                       THEN frame.result.items_touched
                       ELSE IF frame.result.ok THEN 1 ELSE 0

\* a recipe returned ok = false with a count_updated and no items_touched:
\* the dispatcher returned 0
C27_Witness ==
    /\ entry = "_apply_action"
    /\ pc = "returned"
    /\ last.recipes = 1
    /\ ~frame.result.ok
    /\ frame.result.items_touched = -1
    /\ frame.result.count_updated = MaxRanges
    /\ last.count = 0

\* ---- a failed step in pipeline.run --------------------------------------
\* C28: when a step has failed in a non-dry run, neither save_as_new_docx
\* nor export_pdf nor write_audit_file is invoked for that input and the run
\* returns 1; and a run that has written an audit file returns 0 (a run
\* whose close_document raised returns nothing, and a write_audit_file that
\* raised has written no file).
C28_NoArtifactAfterStepFailure ==
    /\ (entry = "run" /\ ~dry_run /\ exc.step >= 1 =>
          /\ calls["save_as_new_docx"] = 0
          /\ calls["export_pdf"] = 0
          /\ calls["write_audit"] = 0
          /\ (pc \in {"finally_close", "finally_shutdown", "done"} => result = 1))
    /\ (/\ entry = "run"
        /\ pc = "done"
        /\ calls["write_audit"] = 1
        /\ exc.kind \notin {"write_audit_file", "close_document"}
        => result = 0)

\* a run on a WordComEngine whose step failed: the document was closed, the
\* run returned 1
C28_Witness ==
    /\ entry = "run"
    /\ pc = "done"
    /\ ~dry_run
    /\ engine = "WordComEngine"
    /\ exc.step >= 1
    /\ result = 1
    /\ calls["close_document"] = 1
    /\ calls["snapshot"] = 1

\* ---- services/document_processor.py -------------------------------------
\* models.Document.PROCESSING_STATUS
PROCESSING_STATUS == {"UPLOADED", "PROCESSING", "COMPLETED", "FAILED"}

\* the Document row: status and error_message ("None": NULL)
DocumentRows == [status : PROCESSING_STATUS, error_message : {"None", "old error"}]

\* process_document, lines 213-218: except Exception as e: the row gets
\* status FAILED and error_message str(e), False is returned
ProcessFailed(message, stage) ==
    [returned |-> FALSE, stage |-> stage,
     document |-> [status |-> "FAILED", error_message |-> message]]

\* process_document, lines 125-211, once open_document has returned a
\* handle: the steps, save_as_new_docx or doc.save, _convert_docx_to_pdf and
\* doc.Close can each raise; otherwise True is returned and the row keeps
\* status PROCESSING
AfterOpen(document) ==
    {ProcessFailed("Step failed", "open"),
     ProcessFailed("save failed", "steps"),
     ProcessFailed("Failed to convert DOCX to PDF", "docx"),
     ProcessFailed("Close", "pdf"),
     [returned |-> TRUE, stage |-> "done",
      document |-> [document EXCEPT !.status = "PROCESSING"]]}

\* process_document(document, custom_rules): how it can end.  custom: rules
\* were passed in; readable: the default rules.yaml can be read; raw: the
\* rules dictionary.  The engine is always pick_engine("docx"); str(e) of
\* the NotImplementedError() that DocxEngine.open_document raises is "".
process_document(document, custom, readable, raw, shape_ok, docx_ok) ==
    LET picked == pick_engine("docx", "Linux", FALSE, docx_ok) IN
    IF ~custom /\ ~readable
    THEN {ProcessFailed("No such file or directory", "start")}
    ELSE IF from_dict(raw, shape_ok) # ""
    THEN {ProcessFailed(from_dict(raw, shape_ok), "start")}
    ELSE IF picked.engine = "none"
    THEN {ProcessFailed(picked.error, "rules")}
    ELSE UNION {IF o = "raise" THEN {ProcessFailed("", "engine")}
                ELSE AfterOpen(document) :
                    o \in PrimitiveOutcomes(picked.engine, "open_document")}

InitProcess ==
    /\ Standalone
    /\ pc = "process_call"
    /\ entry = "process_document"
    /\ engine = "none"
    /\ exc = NoExc
    /\ result = -1
    /\ db \in [document : DocumentRows, tasks : {<<>>}, queue : {<<>>}]
    /\ frame \in [fn : {"process_document"}, custom : BOOLEAN, readable : BOOLEAN,
                  raw : RawRules, shape_ok : BOOLEAN, docx_ok : BOOLEAN,
                  returned : {"none"}, stage : {"start"}]

\* ok = processor.process_document(document, custom_rules)
ProcessDocumentCall ==
    /\ pc = "process_call"
    /\ \E o \in process_document(db.document, frame.custom, frame.readable,
                                 frame.raw, frame.shape_ok, frame.docx_ok) :
         /\ db' = [db EXCEPT !.document = o.document]
         /\ frame' = [frame EXCEPT !.returned = o.returned, !.stage = o.stage]
    /\ pc' = "returned"
    /\ UNCHANGED <<batch, entry, rules, dry_run, engine, doc, docstate, pre, post,
                   warnings, step_idx, action_idx, step, ranges, modifications,
                   summary, last, calls, exc, result>>

NextProcess == ProcessDocumentCall

SpecProcess == InitProcess /\ [][NextProcess]_vars

\* C30: process_document never raises; it returns True exactly when the
\* rules were loaded, the document opened, every step applied, the DOCX saved
\* and the PDF converted, and False otherwise; and whenever it has returned
\* False the Document row has status FAILED and an error message.
C30_ProcessDocument ==
    /\ entry = "process_document"
    /\ pc # "process_call"
    => /\ pc = "returned"
       /\ frame.returned \in BOOLEAN
       /\ (frame.returned <=> frame.stage = "done")
       /\ (~frame.returned =>
             /\ db.document.status = "FAILED"
             /\ db.document.error_message \notin {"None", ""})

\* ---- tasks.process_rule: the rule chain of one document -----------------
\* the most RuleTaskState rows of the document
MaxTasks == 2

\* models.RuleTaskState.TASK_STATUS
TASK_STATUS == {"pending", "processing", "completed", "failed"}

\* the rule of the k-th row, in created_at order
RuleNames == <<"lists_dot_to_emdash", "remove_spaces_around_em_dash",
               "enforce_numeric_alignment_all_lists">>

\* the rows a document can have: one per rule, any status, a small counter
TaskTables ==
    UNION {{[k \in 1..n |-> [rule_name |-> RuleNames[k], status |-> f[k].status,
                             state |-> f[k].state]] :
               f \in [1..n -> [status : TASK_STATUS, state : 0..1]]} :
           n \in 1..MaxTasks}

\* process_rule, lines 71-83: the rules dictionary of one recipe step; it
\* has no engine key, so from_dict takes "auto"
rule_config == [engine |-> "auto", allow_text_changes |-> TRUE, nsteps |-> 1]

\* no call of process_rule has found its row yet
NoRuleRun == [index |-> 0, success |-> FALSE, scheduled |-> FALSE]

\* RuleTaskState.objects.filter(document_id=..., status='pending').first():
\* the position of the first pending row, 0 when there is none
FirstPending(tasks) ==
    LET pending == {k \in DOMAIN tasks : tasks[k].status = "pending"} IN
    IF pending = {} THEN 0 ELSE CHOOSE k \in pending : \A j \in pending : k <= j

\* TaskProgressService.task_complete, lines 122-130: when every row is
\* completed or failed the document becomes FAILED or COMPLETED
task_complete(tasks, document) ==
    IF \A k \in DOMAIN tasks : tasks[k].status \in {"completed", "failed"}
    THEN [document EXCEPT !.status =
            IF \E k \in DOMAIN tasks : tasks[k].status = "failed"
            THEN "FAILED" ELSE "COMPLETED"]
    ELSE document

InitChain ==
    /\ Standalone
    /\ pc = "worker"
    /\ entry = "process_rule"
    /\ engine = "none"
    /\ exc = NoExc
    /\ result = -1
    /\ frame \in [fn : {"process_rule"}, docx_ok : BOOLEAN, last : {NoRuleRun}]
    /\ \E tasks \in TaskTables, k \in 1..MaxTasks, s \in 0..1 :
         /\ k <= Len(tasks)
         /\ db = [document |-> [status |-> "PROCESSING", error_message |-> "None"],
                  tasks |-> tasks,
                  queue |-> <<[rule_name |-> RuleNames[k], state |-> s]>>]

\* process_rule with the next pending rule scheduled after a failure too
process_rule_goes_on ==
    /\ pc = "worker"
    /\ db.queue # <<>>
    /\ LET call == Head(db.queue)
           found == {i \in DOMAIN db.tasks :
                        /\ db.tasks[i].rule_name = call.rule_name
                        /\ db.tasks[i].state = call.state} IN
       IF found = {}
       THEN /\ db' = [db EXCEPT !.queue = Tail(@)]
            /\ exc' = Exc("UnboundLocalError")
            /\ frame' = [frame EXCEPT !.last = NoRuleRun]
       ELSE
         \E i \in found :
         \E o \in process_document(db.document, TRUE, TRUE, rule_config, TRUE,
                                   frame.docx_ok) :
           LET saved == [db.tasks EXCEPT ![i] =
                           IF o.returned
                           THEN [@ EXCEPT !.status = "completed", !.state = @ + 1]
                           ELSE [@ EXCEPT !.status = "failed"]]
               document == task_complete(saved, o.document)
               next_task == FirstPending(saved) IN
           /\ exc' = NoExc
           /\ frame' = [frame EXCEPT !.last =
                          [index |-> i, success |-> o.returned,
                           scheduled |-> next_task # 0]]
           /\ IF TRUE
              THEN IF next_task # 0
                   THEN db' = [document |-> document, tasks |-> saved,
                               queue |-> Append(Tail(db.queue),
                                   [rule_name |-> saved[next_task].rule_name,
                                    state |-> saved[next_task].state])]
                   ELSE db' = [document |-> IF o.returned THEN [document EXCEPT !.status = "COMPLETED"]
                                           ELSE document,
                               tasks |-> saved, queue |-> Tail(db.queue)]
              ELSE db' = [document |-> document, tasks |-> saved,
                          queue |-> Tail(db.queue)]
    /\ pc' = pc
    /\ UNCHANGED <<batch, entry, rules, dry_run, engine, doc, docstate, pre, post,
                   warnings, step_idx, action_idx, step, ranges, modifications,
                   summary, last, calls, result>>

\* the background worker runs the scheduled process_rule(document_id,
\* rule_name, state): the row is looked up (when there is none, the except
\* clause fails on its unbound task_state), process_document is called, the
\* row is saved as completed with state + 1 or as failed, task_complete is
\* told, and after a success the first pending rule is scheduled or, when
\* there is none, the document is set to COMPLETED.  (process_document as it
\* is returns False for every document, so every rule run takes the failure
\* branch.)
process_rule ==
    /\ pc = "worker"
    /\ db.queue # <<>>
    /\ LET call == Head(db.queue)
           found == {i \in DOMAIN db.tasks :
                        /\ db.tasks[i].rule_name = call.rule_name
                        /\ db.tasks[i].state = call.state} IN
       IF found = {}
       THEN /\ db' = [db EXCEPT !.queue = Tail(@)]
            /\ exc' = Exc("UnboundLocalError")
            /\ frame' = [frame EXCEPT !.last = NoRuleRun]
       ELSE
         \E i \in found :
         \E o \in process_document(db.document, TRUE, TRUE, rule_config, TRUE,
                                   frame.docx_ok) :
           LET saved == [db.tasks EXCEPT ![i] =
                           IF o.returned
                           THEN [@ EXCEPT !.status = "completed", !.state = @ + 1]
                           ELSE [@ EXCEPT !.status = "failed"]]
               document == task_complete(saved, o.document)
               next_task == FirstPending(saved) IN
           /\ exc' = NoExc
           /\ frame' = [frame EXCEPT !.last =
                          [index |-> i, success |-> o.returned,
                           scheduled |-> o.returned /\ next_task # 0]]
           /\ IF o.returned
              THEN IF next_task # 0
                   THEN db' = [document |-> document, tasks |-> saved,
                               queue |-> Append(Tail(db.queue),
                                   [rule_name |-> saved[next_task].rule_name,
                                    state |-> saved[next_task].state])]
                   ELSE db' = [document |-> [document EXCEPT !.status = "COMPLETED"],
                               tasks |-> saved, queue |-> Tail(db.queue)]
              ELSE db' = [document |-> document, tasks |-> saved,
                          queue |-> Tail(db.queue)]
    /\ pc' = pc
    /\ UNCHANGED <<batch, entry, rules, dry_run, engine, doc, docstate, pre, post,
                   warnings, step_idx, action_idx, step, ranges, modifications,
                   summary, last, calls, result>>

NextChain == process_rule

SpecChain == InitChain /\ [][NextChain]_vars

====
